---- MODULE Spec2Model ----
(***************************************************************************)
(* A model of the in-memory RESP2 key/value server: the concurrent map     *)
(* with per-key expiry (package concurrent, ConcurrentMap), the ring       *)
(* buffer deque with blocking consumers (ConcurrentDeque) and the          *)
(* per-connection reader / writer loop of the TCP server.                  *)
(*                                                                         *)
(* Three specifications share the variables:                               *)
(*   MapSpec    the ConcurrentMap driven through its whole API, with the   *)
(*              runtime's timers and a clock;                              *)
(*   DequeSpec  one ConcurrentDeque driven through its API;                *)
(*   Spec       the server: acceptor, readers, writers, the list store     *)
(*              and its deques (FairSpec adds the scheduler's fairness).   *)
(***************************************************************************)
EXTENDS Integers, Sequences, FiniteSets, TLC

VARIABLES
    clock,      \* time.Now(), in abstract ticks
    cache,      \* ConcurrentMap.entries of the map under test (string cache)
    timers,     \* the runtime's timers created by time.AfterFunc, by id
    goc,        \* per caller: the key of a GetOrCreate between its fast and slow path
    obs,        \* what the Get that just ran returned (NoObs after any other step)
    written,    \* per key: the last Set or Delete the map completed (history)
    deques,     \* the ConcurrentDeque objects NewConcurrentDeque made, by id
    chans,      \* the waiter channels make(chan []T, 1) made, by id
    lastOp,     \* the deque call that just completed, with its arguments and result
    nextVal,    \* how many values the deque's callers have pushed so far
    lists,      \* ConcurrentMap.entries of the list store (key -> deque)
    cancelled,  \* the process-wide context is cancelled
    listener,   \* the TCP listener: "none", "open", "closed" or "failed"
    acceptor,   \* the accept goroutine: where it is and the connection it holds
    mainpc,     \* ClientConnectionWorker: "listen", "loop", "wait" or "done"
    conn,       \* per connection: the socket and the reply channel c
    reader,     \* per connection: ReadWorker, where it is and what it holds
    writer,     \* per connection: WriteWorker, where it is and its bufio buffer
    hist,       \* per connection: requests dispatched, replies handed to the writer
    stream,     \* the lines the scanner channel still delivers before it is closed
    rw,         \* a ReadWorker loop run on stream: position, commands dispatched, errors sent
    cmd,        \* the command ExecuteCommand ran last, its reply, how many ran so far
    lk          \* a deque's RWMutex, the calls in progress inside it, the serial list

mapVars == <<clock, cache, timers, goc, obs, written>>

dequeVars == <<deques, chans, lastOp, nextVal>>

srvVars == <<lists, cancelled, listener, acceptor, mainpc, conn, reader, writer, hist,
             stream, rw, cmd, lk>>

vars == <<clock, cache, timers, goc, obs, written, deques, chans, lastOp, nextVal,
          lists, cancelled, listener, acceptor, mainpc, conn, reader, writer, hist,
          stream, rw, cmd, lk>>

----------------------------------------------------------------------------
(* Bounds of the model.                                                     *)

MaxClock == 3
MaxTimers == 2

Keys == {"k"}
Values == {"old", "new"}
Durations == {0, 1, 2}
Callers == {1, 2}

----------------------------------------------------------------------------
(* ConcurrentMap (package concurrent).                                      *)

\* The zero time.Time: expiresAt.IsZero().
ZeroTime == 0

\* A nil *time.Timer.
NilTimer == 0

\* What m.entries[key] yields for a key that is not in the Go map: the zero
\* mapEntry and exists = false.
NoEntry(zero) == [exists |-> FALSE, data |-> zero, timer |-> NilTimer, expiresAt |-> ZeroTime]

\* mapEntry[V]{data: value} with the optional timer and expiry.
mapEntry(value, timer, expiresAt) ==
    [exists |-> TRUE, data |-> value, timer |-> timer, expiresAt |-> expiresAt]

\* NewConcurrentMap: an empty entries table.
NewConcurrentMap(keys, zero) == [k \in keys |-> NoEntry(zero)]

\* !entry.expiresAt.IsZero() && time.Now().After(entry.expiresAt)
isExpired(entry, now) == entry.expiresAt # ZeroTime /\ now > entry.expiresAt

\* Get without the passive expiration check (mutant of Get).
GetNoExpiryCheck(entries, now, key, zero) == <<entries[key].data, entries[key].exists>>

\* Get: <<value, exists>> under the shared lock.
Get(entries, now, key, zero) ==
    LET entry == entries[key]
    IN  IF isExpired(entry, now) THEN <<zero, FALSE>> ELSE <<entry.data, entry.exists>>

\* The slow path without the second look at the entry (mutant of
\* GetOrCreateLocked).
GetOrCreateNoRecheck(entries, now, key, newValue) ==
    <<[entries EXCEPT ![key] = mapEntry(newValue, NilTimer, ZeroTime)], newValue>>

\* The slow path of GetOrCreate under the exclusive lock: <<entries', value>>.
GetOrCreateLocked(entries, now, key, newValue) ==
    LET entry == entries[key]
    IN  IF entry.exists /\ ~isExpired(entry, now)
        THEN <<entries, entry.data>>
        ELSE <<[entries EXCEPT ![key] = mapEntry(newValue, NilTimer, ZeroTime)], newValue>>

\* timer.Stop(): a timer that has not fired yet never will; one whose
\* function already started is not affected.
StopTimer(ts, t) ==
    IF t # NilTimer /\ ts[t].state = "armed" THEN [ts EXCEPT ![t].state = "stopped"] ELSE ts

\* time.AfterFunc(d, f) called at instant now for the entry of key.
AfterFunc(ts, key, now, d) == Append(ts, [key |-> key, deadline |-> now + d, state |-> "armed"])

\* Set forgetting to add the duration to time.Now() (mutant of newEntry).
newEntryNoAdd(value, now, d, t) ==
    IF d > 0 THEN mapEntry(value, t, now) ELSE mapEntry(value, NilTimer, ZeroTime)

\* The entry Set writes: expiresAt = time.Now().Add(expiryDuration) and the
\* new timer when expiryDuration > 0, a plain entry otherwise.
newEntry(value, now, d, t) ==
    IF d > 0 THEN mapEntry(value, t, now + d) ELSE mapEntry(value, NilTimer, ZeroTime)

\* The timer's function leaving the entry in the table (mutant of
\* timerCallback).
timerCallbackNoDelete(entries, key, t, zero) == entries

\* The timer's function without the identity check (mutant of timerCallback).
timerCallbackNoIdentity(entries, key, t, zero) ==
    IF entries[key].exists THEN [entries EXCEPT ![key] = NoEntry(zero)] ELSE entries

\* The function AfterFunc runs for timer t: delete only if the entry's timer
\* is still this timer.
timerCallback(entries, key, t, zero) ==
    IF entries[key].exists /\ entries[key].timer = t
    THEN [entries EXCEPT ![key] = NoEntry(zero)]
    ELSE entries

\* Set keeping the previous entry's timer and expiry when it is given no
\* duration (mutant of Set).
SetKeepExpiry(entries, ts, key, value, now, d) ==
    LET previous == entries[key]
        stopped == IF previous.exists THEN StopTimer(ts, previous.timer) ELSE ts
        t == Len(ts) + 1
    IN  IF d > 0
        THEN <<[entries EXCEPT ![key] = newEntry(value, now, d, t)],
               AfterFunc(stopped, key, now, d)>>
        ELSE <<[entries EXCEPT ![key] = [previous EXCEPT !.exists = TRUE, !.data = value]], ts>>

\* Set under the exclusive lock: <<entries', timers'>>.  The previous
\* entry's timer is stopped; a positive duration arms a new timer.
Set(entries, ts, key, value, now, d) ==
    LET previous == entries[key]
        stopped == IF previous.exists THEN StopTimer(ts, previous.timer) ELSE ts
        t == Len(ts) + 1
    IN  <<[entries EXCEPT ![key] = newEntry(value, now, d, t)],
          IF d > 0 THEN AfterFunc(stopped, key, now, d) ELSE stopped>>

\* Delete under the exclusive lock: <<entries', timers'>>.
Delete(entries, ts, key, zero) ==
    IF entries[key].exists
    THEN <<[entries EXCEPT ![key] = NoEntry(zero)], StopTimer(ts, entries[key].timer)>>
    ELSE <<entries, ts>>

----------------------------------------------------------------------------
(* ConcurrentDeque (package concurrent).                                    *)

\* make([]T, 16) in NewConcurrentDeque.
InitialCapacity == 16

Max(a, b) == IF a >= b THEN a ELSE b
Min(a, b) == IF a <= b THEN a ELSE b

\* a & b on the bits of two non-negative ints.
RECURSIVE BitAnd(_, _)
BitAnd(a, b) ==
    IF a = 0 \/ b = 0 THEN 0
    ELSE (a % 2) * (b % 2) + 2 * BitAnd(a \div 2, b \div 2)

\* x & mask as Go computes it on two's complement ints (x may be -1 when
\* the head steps back from 0); mask is below 2^30.
And(x, mask) == IF x >= 0 THEN BitAnd(x, mask) ELSE BitAnd(x + 2^30, mask)

\* A Go slice result: nil, or a (possibly empty) slice of items.
NilSlice == [nil |-> TRUE, items |-> << >>]
Slice(items) == [nil |-> FALSE, items |-> items]

\* NewConcurrentDeque: 16 zeroed slots, no waiters, the mutex free.
NewConcurrentDeque ==
    [buf |-> [i \in 1..InitialCapacity |-> ""], head |-> 0, tail |-> 0, count |-> 0,
     waiters |-> << >>, mu |-> "free"]

\* The elements of the ring in logical order (the walk GetRange does).
Contents(q) == [i \in 1..q.count |-> q.buf[And(q.head + i - 1, Len(q.buf) - 1) + 1]]

\* A new size of exactly the target, no doubling (mutant of doubleUntil).
growToTarget(newSize, targetCount) == Max(newSize, targetCount)

\* for newSize < targetCount { newSize <<= 1 }
RECURSIVE doubleUntil(_, _)
doubleUntil(newSize, targetCount) ==
    IF newSize < targetCount THEN doubleUntil(2 * newSize, targetCount) ELSE newSize

\* Growth that copies the old buffer slot by slot, without walking it from
\* the head (mutant of resizeIfNecessaryNoLock).
resizeNoRelinearize(q, targetCount) ==
    IF targetCount <= Len(q.buf) THEN q
    ELSE LET newSize == doubleUntil(Max(Len(q.buf), 1), targetCount)
             newBuf == [i \in 1..newSize |-> IF i <= Len(q.buf) THEN q.buf[i] ELSE ""]
         IN  [q EXCEPT !.buf = newBuf, !.head = 0, !.tail = q.count]

\* resizeIfNecessaryNoLock: nothing when targetCount fits; else a buffer of
\* the doubled size, the elements copied in logical order from slot 0.
resizeIfNecessaryNoLock(q, targetCount) ==
    IF targetCount <= Len(q.buf) THEN q
    ELSE LET newSize == doubleUntil(Max(Len(q.buf), 1), targetCount)
             oldMask == Len(q.buf) - 1
             newBuf == [i \in 1..newSize |->
                          IF i <= q.count THEN q.buf[And(q.head + i - 1, oldMask) + 1] ELSE ""]
         IN  [q EXCEPT !.buf = newBuf, !.head = 0, !.tail = q.count]

\* The loop of PushBack: each value goes to buf[tail], tail and count advance.
RECURSIVE pushBackLoop(_, _)
pushBackLoop(q, values) ==
    IF values = << >> THEN q
    ELSE pushBackLoop([q EXCEPT !.buf[q.tail + 1] = Head(values),
                                !.tail = And(q.tail + 1, Len(q.buf) - 1),
                                !.count = q.count + 1],
                      Tail(values))

\* PushFront placing the values as one block, first value at the head
\* (mutant of pushFrontLoop).
RECURSIVE pushFrontBlock(_, _)
pushFrontBlock(q, values) ==
    IF values = << >> THEN q
    ELSE LET h == And(q.head - 1, Len(q.buf) - 1)
         IN  pushFrontBlock([q EXCEPT !.head = h, !.buf[h + 1] = values[Len(values)],
                                      !.count = q.count + 1],
                            SubSeq(values, 1, Len(values) - 1))

\* The loop of PushFront: head steps back, each value goes to buf[head].
RECURSIVE pushFrontLoop(_, _)
pushFrontLoop(q, values) ==
    IF values = << >> THEN q
    ELSE LET h == And(q.head - 1, Len(q.buf) - 1)
         IN  pushFrontLoop([q EXCEPT !.head = h, !.buf[h + 1] = Head(values),
                                     !.count = q.count + 1],
                           Tail(values))

\* notifyAwaiters delivering to the newest waiter first (mutant of
\* notifyAwaiters).
RECURSIVE notifyAwaitersLifo(_, _, _)
notifyAwaitersLifo(waiters, chs, values) ==
    IF Len(waiters) > 0 /\ Len(values) > 0
    THEN LET ch == waiters[Len(waiters)]
         IN  IF Len(chs[ch].buf) >= 1
             THEN [waiters |-> waiters, chans |-> chs, blocked |-> TRUE]
             ELSE notifyAwaitersLifo(SubSeq(waiters, 1, Len(waiters) - 1),
                                     [chs EXCEPT ![ch].buf = Append(@, <<values[1]>>)],
                                     Tail(values))
    ELSE [waiters |-> waiters, chans |-> chs, blocked |-> FALSE]

\* notifyAwaiters sending the first value to every waiter it serves, never
\* moving on to the next value (mutant of notifyAwaiters).
RECURSIVE notifyAwaitersSameValue(_, _, _)
notifyAwaitersSameValue(waiters, chs, values) ==
    IF Len(waiters) > 0 /\ Len(values) > 0
    THEN LET ch == Head(waiters)
         IN  IF Len(chs[ch].buf) >= 1
             THEN [waiters |-> waiters, chans |-> chs, blocked |-> TRUE]
             ELSE notifyAwaitersSameValue(Tail(waiters),
                                          [chs EXCEPT ![ch].buf = Append(@, <<values[1]>>)],
                                          values)
    ELSE [waiters |-> waiters, chans |-> chs, blocked |-> FALSE]

\* notifyAwaiters leaving a waiter it has served in the queue (mutant of
\* notifyAwaiters).
RECURSIVE notifyAwaitersKeepWaiter(_, _, _)
notifyAwaitersKeepWaiter(waiters, chs, values) ==
    IF Len(waiters) > 0 /\ Len(values) > 0
    THEN LET ch == Head(waiters)
         IN  IF Len(chs[ch].buf) >= 1
             THEN [waiters |-> waiters, chans |-> chs, blocked |-> TRUE]
             ELSE LET n == notifyAwaitersKeepWaiter(Tail(waiters),
                                                    [chs EXCEPT ![ch].buf = Append(@, <<values[1]>>)],
                                                    Tail(values))
                  IN  [n EXCEPT !.waiters = <<ch>> \o @]
    ELSE [waiters |-> waiters, chans |-> chs, blocked |-> FALSE]

\* notifyAwaiters: while there are waiters and values, send values[0:1] on
\* the front waiter's channel, remove that waiter, drop the value.  A send
\* on a full channel (capacity 1) blocks the caller, which holds the lock.
RECURSIVE notifyAwaiters(_, _, _)
notifyAwaiters(waiters, chs, values) ==
    IF Len(waiters) > 0 /\ Len(values) > 0
    THEN LET ch == Head(waiters)
         IN  IF Len(chs[ch].buf) >= 1
             THEN [waiters |-> waiters, chans |-> chs, blocked |-> TRUE]
             ELSE notifyAwaiters(Tail(waiters),
                                 [chs EXCEPT ![ch].buf = Append(@, <<values[1]>>)],
                                 Tail(values))
    ELSE [waiters |-> waiters, chans |-> chs, blocked |-> FALSE]

\* What a push leaves behind once its deferred notifyAwaiters has run: the
\* deque, the channels and the returned length (q.count as evaluated by the
\* return statement, before the deferred calls).
afterPush(stored, chs, values) ==
    LET n == notifyAwaiters(stored.waiters, chs, values)
    IN  [q |-> [stored EXCEPT !.waiters = n.waiters,
                              !.mu = IF n.blocked THEN "held" ELSE "free"],
         chans |-> n.chans, ret |-> stored.count]

PushBack(q, chs, values) ==
    afterPush(pushBackLoop(resizeIfNecessaryNoLock(q, q.count + Len(values)), values),
              chs, values)

PushFront(q, chs, values) ==
    afterPush(pushFrontLoop(resizeIfNecessaryNoLock(q, q.count + Len(values)), values),
              chs, values)

\* The pop loop filling its result from the back (mutant of popLoop).
RECURSIVE popLoopBackwards(_, _, _)
popLoopBackwards(q, n, res) ==
    IF n = 0 THEN <<q, Slice(res)>>
    ELSE popLoopBackwards([q EXCEPT !.buf[q.head + 1] = "",
                                    !.head = And(q.head + 1, Len(q.buf) - 1),
                                    !.count = q.count - 1],
                          n - 1, <<q.buf[q.head + 1]>> \o res)

\* popFrontNoLock: <<the deque after, the slice of popped elements>>.
RECURSIVE popLoop(_, _, _)
popLoop(q, n, res) ==
    IF n = 0 THEN <<q, Slice(res)>>
    ELSE popLoop([q EXCEPT !.buf[q.head + 1] = "",
                           !.head = And(q.head + 1, Len(q.buf) - 1),
                           !.count = q.count - 1],
                 n - 1, Append(res, q.buf[q.head + 1]))

popFrontNoLock(q, n) == popLoop(q, Max(0, Min(n, q.count)), << >>)

\* A fresh channel of capacity 1: nothing buffered, nothing received yet.
NewChan == [buf |-> << >>, got |-> << >>]

\* PopFrontAsync returning from its waiting branch without the Unlock
\* (mutant of PopFrontAsync).
PopFrontAsyncHoldingLock(q, chs, timeout) ==
    LET ch == Len(chs) + 1
        all == Append(chs, NewChan)
    IN  IF q.count > 0
        THEN LET r == popFrontNoLock(q, 1)
             IN  [q |-> r[1], chans |-> [all EXCEPT ![ch].buf = <<r[2].items>>], ch |-> ch]
        ELSE [q |-> [q EXCEPT !.waiters = Append(@, ch), !.mu = "held"], chans |-> all, ch |-> ch]

\* PopFrontAsync that queues its channel whatever the count (mutant of
\* PopFrontAsync).
PopFrontAsyncAlwaysWait(q, chs, timeout) ==
    [q |-> [q EXCEPT !.waiters = Append(@, Len(chs) + 1)], chans |-> Append(chs, NewChan),
     ch |-> Len(chs) + 1]

\* PopFrontAsync with ch the channel it makes: pop one element onto the
\* channel when count > 0, else append the channel to the waiters.  The
\* timeout argument is not used by the body.
PopFrontAsync(q, chs, timeout) ==
    LET ch == Len(chs) + 1
        all == Append(chs, NewChan)
    IN  IF q.count > 0
        THEN LET r == popFrontNoLock(q, 1)
             IN  [q |-> r[1], chans |-> [all EXCEPT ![ch].buf = <<r[2].items>>], ch |-> ch]
        ELSE [q |-> [q EXCEPT !.waiters = Append(@, ch)], chans |-> all, ch |-> ch]

GetRange(q, startIndex, stopIndex) ==
    IF q.count = 0 THEN NilSlice
    ELSE LET s0 == IF startIndex < 0 THEN q.count + startIndex ELSE startIndex
             e0 == IF stopIndex < 0 THEN q.count + stopIndex ELSE stopIndex
             s == Max(0, s0)
             e == Min(q.count - 1, e0)
         IN  IF s > e THEN Slice(<< >>)
             ELSE Slice([i \in 1..(e - s + 1) |->
                            q.buf[And(q.head + s + i - 1, Len(q.buf) - 1) + 1]])

DequeLen(q) == q.count

----------------------------------------------------------------------------
(* Replies, the command handlers and the per-connection workers.            *)

Conns == {1, 2}
ListKeys == {"L"}

\* A reply string, by its leading marker and its payload.
Reply(prefix, n, items, text) == [prefix |-> prefix, n |-> n, items |-> items, text |-> text]

NoReply == Reply("", 0, << >>, "")

\* "$-1\r\n" and "$<len>\r\n<text>\r\n"
NilBulk == Reply("$", -1, << >>, "")
Bulk(text) == Reply("$", 0, << >>, text)

\* ":<n>\r\n"
IntReply(n) == Reply(":", n, << >>, "")

\* A command-level error reply "-ERR ...".
ErrReply(text) == Reply("-ERR", 0, << >>, text)

\* HandleError(str, terminate): the prefix is "-ERR", with "TERM" appended
\* when terminate is set.
HandleErrorReply(text, terminate) ==
    Reply(IF terminate THEN "-ERRTERM" ELSE "-ERR", 0, << >>, text)

\* SerializeRespArray: "*-1\r\n" for nil, else "*<len>\r\n" and the items.
SerializeRespArray(arr) ==
    IF arr.nil THEN Reply("*", -1, << >>, "") ELSE Reply("*", Len(arr.items), arr.items, "")

\* lrange.execute once its indices are parsed: "*0\r\n" when lists.Get
\* finds no list, else the serialized GetRange of the list.
lrangeReply(exists, q, startIndex, stopIndex) ==
    IF ~exists THEN Reply("*", 0, << >>, "")
    ELSE SerializeRespArray(GetRange(q, startIndex, stopIndex))

\* strconv.Atoi on the numerals the clients of the model send.
Numerals == ("0" :> 0) @@ ("1" :> 1) @@ ("2" :> 2) @@ ("-1" :> -1)
Atoi(s) == IF s \in DOMAIN Numerals THEN [ok |-> TRUE, n |-> Numerals[s]]
           ELSE [ok |-> FALSE, n |-> 0]

\* What the reader holds: its position, the command in flight, the deque
\* handle GetOrCreate / Get returned, the waiter channel PopFrontAsync
\* returned, the reply it is sending, the err flag; slow records that the
\* command in flight went through GetOrCreate's slow path (history).
ReaderIdle ==
    [pc |-> "idle", params |-> << >>, handle |-> 0, ch |-> 0,
     reply |-> NoReply, err |-> FALSE, slow |-> FALSE]

\* The reader after a handler returned its reply: blocked sending it on c.
Sending(r, reply) == [r EXCEPT !.pc = "send", !.reply = reply]

\* lists.GetOrCreate, fast path: a hit yields the handle, a miss goes on to
\* the exclusive lock.
getOrCreateFast(r, entries, now, key) ==
    LET g == Get(entries, now, key, 0)
    IN  IF g[2] THEN [r EXCEPT !.pc = "op", !.handle = g[1]] ELSE [r EXCEPT !.pc = "goc"]

rpushExecute(r, entries, now) ==
    IF Len(r.params) < 3 THEN Sending(r, ErrReply("RPUSH requires key and at least one element!"))
    ELSE getOrCreateFast(r, entries, now, r.params[2])

lpushExecute(r, entries, now) ==
    IF Len(r.params) < 3 THEN Sending(r, ErrReply("LPUSH requires key and at least one element!"))
    ELSE getOrCreateFast(r, entries, now, r.params[2])

llenExecute(r, entries, now) ==
    IF Len(r.params) # 2 THEN Sending(r, ErrReply("LLEN requires key!"))
    ELSE LET g == Get(entries, now, r.params[2], 0)
         IN  IF ~g[2] THEN Sending(r, ErrReply("List does not exist!"))
             ELSE [r EXCEPT !.pc = "op", !.handle = g[1]]

\* LPOP ignoring its count parameter (mutant of lpopCount).
lpopCountOne(params) == [ok |-> TRUE, n |-> 1]

\* The count LPOP pops: 1, or the third parameter.
lpopCount(params) == IF Len(params) = 3 THEN Atoi(params[3]) ELSE [ok |-> TRUE, n |-> 1]

\* LPOP going through lists.GetOrCreate as the push handlers do (mutant of
\* lpopExecute).
lpopExecuteGetOrCreate(r, entries, now) ==
    IF Len(r.params) < 2 \/ Len(r.params) > 3
    THEN Sending(r, ErrReply("LPOP requires 2 or 3 arguments!"))
    ELSE IF ~lpopCount(r.params).ok
    THEN Sending(r, ErrReply("Could not convert to an int for count!"))
    ELSE IF lpopCount(r.params).n < 1
    THEN Sending(r, ErrReply("Count must be a positive integer!"))
    ELSE getOrCreateFast(r, entries, now, r.params[2])

lpopExecute(r, entries, now) ==
    IF Len(r.params) < 2 \/ Len(r.params) > 3
    THEN Sending(r, ErrReply("LPOP requires 2 or 3 arguments!"))
    ELSE IF ~lpopCount(r.params).ok
    THEN Sending(r, ErrReply("Could not convert to an int for count!"))
    ELSE IF lpopCount(r.params).n < 1
    THEN Sending(r, ErrReply("Count must be a positive integer!"))
    ELSE LET g == Get(entries, now, r.params[2], 0)
         IN  IF g[2] THEN [r EXCEPT !.pc = "op", !.handle = g[1]] ELSE Sending(r, NilBulk)

blpopExecute(r, entries, now) ==
    IF Len(r.params) # 3 THEN Sending(r, ErrReply("BLPOP requires 3 arguments!"))
    ELSE IF ~Atoi(r.params[3]).ok
    THEN Sending(r, ErrReply("Could not convert to an int for timeoutSeconds!"))
    ELSE getOrCreateFast(r, entries, now, r.params[2])

pingExecute(r) == Sending(r, Reply("+", 0, << >>, "PONG"))

\* The keys of resp2_Commands_Map.
resp2_Commands_Map ==
    {"HELP", "PING", "ECHO", "SET", "GET", "RPUSH", "LRANGE", "LPUSH", "LLEN", "LPOP", "BLPOP"}

\* getUsage of the command name: a text that begins with a newline and
\* "usage:".
Usage(name) == Reply("usage", 0, << >>, name)

\* ECHO replying its message as it came, with no length header (mutant of
\* echoExecute).
echoExecuteRaw(r) ==
    IF Len(r.params) # 2 THEN Sending(r, ErrReply("Unexpected number of params!"))
    ELSE Sending(r, Reply("", 0, << >>, r.params[2]))

\* echo.execute: the message as a bulk string.
echoExecute(r) ==
    IF Len(r.params) # 2 THEN Sending(r, ErrReply("Unexpected number of params!"))
    ELSE Sending(r, Bulk(r.params[2]))

\* help.execute: its own usage, "Command '<name>' is not supported", or the
\* usage of the named command.
helpExecute(r) ==
    IF Len(r.params) # 2 THEN Sending(r, Usage("HELP"))
    ELSE IF r.params[2] \notin resp2_Commands_Map
    THEN Sending(r, Reply("Command", 0, << >>, r.params[2]))
    ELSE Sending(r, Usage(r.params[2]))

lrangeExecute(r, entries, now) ==
    IF Len(r.params) # 4 THEN Sending(r, ErrReply("LRANGE key, start, and stop!"))
    ELSE IF ~Atoi(r.params[3]).ok
    THEN Sending(r, ErrReply("Start index could not be converted to int!"))
    ELSE IF ~Atoi(r.params[4]).ok
    THEN Sending(r, ErrReply("Stop index could not be converted to int!"))
    ELSE LET g == Get(entries, now, r.params[2], 0)
         IN  IF ~g[2]
             THEN Sending(r, lrangeReply(FALSE, NewConcurrentDeque,
                                         Atoi(r.params[3]).n, Atoi(r.params[4]).n))
             ELSE [r EXCEPT !.pc = "op", !.handle = g[1]]

\* The loop of set.execute over tokens[3:] (i counts from 1 here): every
\* "PX" must be followed by a token Atoi accepts; the last one counts.
RECURSIVE setLoop(_, _, _)
setLoop(tokens, i, expiryDurationMs) ==
    IF i > Len(tokens) THEN [err |-> FALSE, ms |-> expiryDurationMs, reply |-> NoReply]
    ELSE IF tokens[i] = "PX"
    THEN IF i + 1 > Len(tokens)
         THEN [err |-> TRUE, ms |-> 0, reply |-> ErrReply("No expiration specified!")]
         ELSE IF ~Atoi(tokens[i + 1]).ok
         THEN [err |-> TRUE, ms |-> 0,
               reply |-> ErrReply("Could not convert to an int for expiry!")]
         ELSE setLoop(tokens, i + 1, Atoi(tokens[i + 1]).n)
    ELSE setLoop(tokens, i + 1, expiryDurationMs)

\* set.execute up to cache.Set: its error replies, or on to the cache.
setExecute(r) ==
    LET tokens == r.params
    IN  IF Len(tokens) >= 3
        THEN IF tokens[2] = "" THEN Sending(r, ErrReply("Key cannot be empty!"))
             ELSE IF tokens[3] = "" THEN Sending(r, ErrReply("Value cannot be empty!"))
             ELSE IF setLoop(tokens, 4, 0).err THEN Sending(r, setLoop(tokens, 4, 0).reply)
             ELSE [r EXCEPT !.pc = "set"]
        ELSE IF Len(tokens) = 2 THEN Sending(r, ErrReply("No value given for key!"))
        ELSE Sending(r, ErrReply("No key given!"))

\* get.execute up to cache.Get.
getArity(r) ==
    IF Len(r.params) < 2 THEN Sending(r, ErrReply("No key provided to GET!"))
    ELSE [r EXCEPT !.pc = "get"]

\* ExecuteCommand up to the handler's first blocking point: the lookup in
\* resp2_Commands_Map, then the handler.
ExecuteCommand(r, entries, now) ==
    LET name == r.params[1]
    IN  IF name = "PING" THEN pingExecute(r)
        ELSE IF name = "RPUSH" THEN rpushExecute(r, entries, now)
        ELSE IF name = "LPUSH" THEN lpushExecute(r, entries, now)
        ELSE IF name = "LLEN" THEN llenExecute(r, entries, now)
        ELSE IF name = "LPOP" THEN lpopExecute(r, entries, now)
        ELSE IF name = "BLPOP" THEN blpopExecute(r, entries, now)
        ELSE IF name = "LRANGE" THEN lrangeExecute(r, entries, now)
        ELSE IF name = "SET" THEN setExecute(r)
        ELSE IF name = "GET" THEN getArity(r)
        ELSE IF name = "ECHO" THEN echoExecute(r)
        ELSE IF name = "HELP" THEN helpExecute(r)
        ELSE Sending(r, Reply("Unrecognized", 0, << >>, name))

\* The call on the deque each list handler makes once it has the handle:
\* the deque and channels after, and the reader after (sending its reply,
\* or waiting on the channel PopFrontAsync returned, or blocked inside a
\* push whose send on a waiter channel cannot complete).
dequeCall(r, q, chs) ==
    LET name == r.params[1]
    IN  IF name \in {"RPUSH", "LPUSH"}
        THEN LET values == SubSeq(r.params, 3, Len(r.params))
                 p == IF name = "RPUSH" THEN PushBack(q, chs, values)
                      ELSE PushFront(q, chs, values)
             IN  [q |-> p.q, chans |-> p.chans,
                  r |-> IF p.q.mu = "held" THEN [r EXCEPT !.pc = "blocked"]
                        ELSE Sending(r, IntReply(p.ret))]
        ELSE IF name = "LLEN"
        THEN [q |-> q, chans |-> chs, r |-> Sending(r, IntReply(DequeLen(q)))]
        ELSE IF name = "LPOP"
        THEN LET p == popFrontNoLock(q, lpopCount(r.params).n)
             IN  [q |-> p[1], chans |-> chs, r |-> Sending(r, SerializeRespArray(p[2]))]
        ELSE IF name = "LRANGE"
        THEN [q |-> q, chans |-> chs,
              r |-> Sending(r, lrangeReply(TRUE, q, Atoi(r.params[3]).n, Atoi(r.params[4]).n))]
        ELSE LET p == PopFrontAsync(q, chs, Atoi(r.params[3]).n)
             IN  [q |-> p.q, chans |-> p.chans, r |-> [r EXCEPT !.pc = "wait", !.ch = p.ch]]

\* strings.HasPrefix(str, "-ERRTERM")
HasPrefixErrTerm(str) == str.prefix = "-ERRTERM"

\* writer.WriteString(str) and writer.Flush() of the bufio.Writer.
WriteString(buf, str) == Append(buf, str)
\* Flush writing the buffer in front of what the socket already received
\* (mutant of Flush).
FlushInFront(sock, buf) == buf \o sock
Flush(sock, buf) == sock \o buf

\* The server before net.Listen, no client connected.
ServerStateInit ==
    /\ lists = NewConcurrentMap(ListKeys, 0)
    /\ cancelled = FALSE
    /\ listener = "none"
    /\ acceptor = [pc |-> "idle", c |-> 0]
    /\ mainpc = "listen"
    /\ conn = [c \in Conns |-> [state |-> "new", closed |-> FALSE, cclosed |-> FALSE,
                                sock |-> << >>]]
    /\ reader = [c \in Conns |-> ReaderIdle]
    /\ writer = [c \in Conns |-> [pc |-> "idle", buf |-> << >>]]
    /\ hist = [c \in Conns |-> [dispatched |-> 0, handed |-> << >>]]

----------------------------------------------------------------------------
(* MapSpec: the map's operations as atomic steps (each holds the lock for   *)
(* its whole body), the runtime firing timers, and the clock.               *)

\* No Set or Delete yet / the record of a completed Set (prev: the timer of
\* the entry it overwrote) / of a completed Delete.
NoWrite == [kind |-> "none", value |-> "", t0 |-> 0, ttl |-> 0, prev |-> NilTimer]

\* The reply of the GET command for the result of cache.Get.
getExecute(entries, now, key) ==
    LET r == Get(entries, now, key, "")
    IN  IF r[2] THEN Bulk(r[1]) ELSE NilBulk

NoObs == [key |-> "", value |-> "", exists |-> FALSE, at |-> 0, entry |-> NoEntry(""),
          since |-> NoWrite, reply |-> NilBulk]

\* No deque call has completed yet.
NoOp == [op |-> "", values |-> << >>, n |-> 0, m |-> 0, ret |-> 0, res |-> NilSlice]

\* The map right after NewConcurrentMap, no timer, the clock at its start.
MapStateInit ==
    /\ clock = 1
    /\ cache = NewConcurrentMap(Keys, "")
    /\ timers = << >>
    /\ goc = [c \in Callers |-> ""]
    /\ obs = NoObs
    /\ written = [k \in Keys |-> NoWrite]

\* No ReadWorker loop under test, no command run yet.
NoLoop == [pc |-> "idle", dispatched |-> << >>, sent |-> << >>]

NoCmd == [params |-> << >>, reply |-> NoReply, count |-> 0]

\* A call on the deque that has not started / an RWMutex nobody holds,
\* no call in progress, the serial list empty.
NoCall == [pc |-> "idle", op |-> "", values |-> << >>, n |-> 0, res |-> << >>, snap |-> << >>]
NoLock == [writer |-> 0, readers |-> {}, g |-> [c \in Callers |-> NoCall], abs |-> << >>]

AuxStateIdle ==
    /\ stream = << >>
    /\ rw = NoLoop
    /\ cmd = NoCmd
    /\ lk = NoLock

\* No deque and no waiter channel made yet.
DequeStateIdle ==
    /\ deques = << >>
    /\ chans = << >>
    /\ lastOp = NoOp
    /\ nextVal = 0

MapInit == MapStateInit /\ DequeStateIdle /\ ServerStateInit /\ AuxStateIdle

Tick ==
    /\ clock < MaxClock
    /\ clock' = clock + 1
    /\ obs' = NoObs
    /\ UNCHANGED <<cache, timers, goc, written>>
    /\ UNCHANGED <<dequeVars, srvVars>>

\* m.Set(key, value, expiryDuration)
CallSet(key, value, d) ==
    /\ d > 0 => Len(timers) < MaxTimers
    /\ LET prev == cache[key]
           stopped == IF prev.exists THEN StopTimer(timers, prev.timer) ELSE timers
           t == Len(timers) + 1
       IN  /\ timers' = IF d > 0 THEN AfterFunc(stopped, key, clock, d) ELSE stopped
           /\ cache' = [cache EXCEPT ![key] = newEntry(value, clock, d, t)]
           /\ written' = [written EXCEPT ![key] =
                  [kind |-> "set", value |-> value, t0 |-> clock, ttl |-> d,
                   prev |-> prev.timer]]
    /\ obs' = NoObs
    /\ UNCHANGED <<clock, goc>>
    /\ UNCHANGED <<dequeVars, srvVars>>

\* m.Get(key)
CallGet(key) ==
    /\ LET r == Get(cache, clock, key, "")
       IN  obs' = [key |-> key, value |-> r[1], exists |-> r[2], at |-> clock,
                   entry |-> cache[key], since |-> written[key],
                   reply |-> getExecute(cache, clock, key)]
    /\ UNCHANGED <<clock, cache, timers, goc, written>>
    /\ UNCHANGED <<dequeVars, srvVars>>

\* m.Delete(key)
CallDelete(key) ==
    /\ LET r == Delete(cache, timers, key, "")
       IN  cache' = r[1] /\ timers' = r[2]
    /\ written' = [written EXCEPT ![key] = [NoWrite EXCEPT !.kind = "delete", !.t0 = clock]]
    /\ obs' = NoObs
    /\ UNCHANGED <<clock, goc>>
    /\ UNCHANGED <<dequeVars, srvVars>>

\* The runtime starts the goroutine of an armed timer at or after its deadline.
TimerFire(t) ==
    /\ timers[t].state = "armed"
    /\ clock >= timers[t].deadline
    /\ timers' = [timers EXCEPT ![t].state = "fired"]
    /\ obs' = NoObs
    /\ UNCHANGED <<clock, cache, goc, written>>
    /\ UNCHANGED <<dequeVars, srvVars>>

\* The timer's function gets the exclusive lock and runs.
TimerCallback(t) ==
    /\ timers[t].state = "fired"
    /\ cache' = timerCallback(cache, timers[t].key, t, "")
    /\ timers' = [timers EXCEPT ![t].state =
                    IF cache'[timers[t].key] = cache[timers[t].key] THEN "skipped" ELSE "deleted"]
    /\ obs' = NoObs
    /\ UNCHANGED <<clock, goc, written>>
    /\ UNCHANGED <<dequeVars, srvVars>>

\* GetOrCreate, fast path: Get under the shared lock; a hit returns.
CallGetOrCreateFast(c, key) ==
    /\ goc[c] = ""
    /\ goc' = [goc EXCEPT ![c] = IF Get(cache, clock, key, "")[2] THEN "" ELSE key]
    /\ obs' = NoObs
    /\ UNCHANGED <<clock, cache, timers, written>>
    /\ UNCHANGED <<dequeVars, srvVars>>

\* GetOrCreate, slow path: the double check under the exclusive lock.
CallGetOrCreateSlow(c) ==
    /\ goc[c] # ""
    /\ cache' = GetOrCreateLocked(cache, clock, goc[c], "made")[1]
    /\ goc' = [goc EXCEPT ![c] = ""]
    /\ obs' = NoObs
    /\ UNCHANGED <<clock, timers, written>>
    /\ UNCHANGED <<dequeVars, srvVars>>

MapNext ==
    \/ Tick
    \/ \E key \in Keys, value \in Values, d \in Durations : CallSet(key, value, d)
    \/ \E key \in Keys : CallGet(key)
    \/ \E key \in Keys : CallDelete(key)
    \/ \E t \in 1..Len(timers) : TimerFire(t)
    \/ \E t \in 1..Len(timers) : TimerCallback(t)
    \/ \E c \in Callers, key \in Keys : CallGetOrCreateFast(c, key)
    \/ \E c \in Callers : CallGetOrCreateSlow(c)

MapSpec == MapInit /\ [][MapNext]_vars

----------------------------------------------------------------------------
(* Claims about the map.                                                    *)

\* A Set with a time to live that overwrote an entry holding a timer: until
\* its own time to live elapses, a Get finds its value.
OverwriteSurvives ==
    \A k \in Keys :
        LET w == written[k]
        IN  (w.kind = "set" /\ w.ttl > 0 /\ w.prev # NilTimer /\ clock < w.t0 + w.ttl)
                => Get(cache, clock, k, "") = <<w.value, TRUE>>

\* The function of a timer that is not the timer of the current entry of
\* its key leaves that entry alone.
StaleCallbackKeeps ==
    \A t \in 1..Len(timers) :
        (/\ timers[t].state = "fired"
         /\ timers'[t].state # "fired"
         /\ cache[timers[t].key].timer # t)
            => cache'[timers[t].key] = cache[timers[t].key]

\* C1: after Set(k, old, short ttl) then Set(k, v, long ttl), in every
\* interleaving (the first timer stopped in time, or already fired and its
\* function waiting for the lock), the first timer's function never removes
\* the second entry, and Get(k) reports v present until the long ttl elapses.
TimerIdentity == []OverwriteSurvives /\ [][StaleCallbackKeeps]_vars

\* The first timer had fired before the second Set, its function then ran
\* and the second entry is still there, within its time to live.
TimerIdentityWitness ==
    \E k \in Keys : \E t \in 1..Len(timers) :
        /\ timers[t].key = k /\ timers[t].state = "skipped"
        /\ written[k].kind = "set" /\ written[k].prev = t /\ written[k].ttl > 0
        /\ clock < written[k].t0 + written[k].ttl
        /\ cache[k].exists /\ cache[k].timer \notin {t, NilTimer}

\* C9: a Get(k) at an instant before t0 + ttl, where the last Set or Delete
\* on k is Set(k, v, ttl) with ttl > 0 completed at t0, returns (v, present).
ReadYourWrite ==
    (obs.since.kind = "set" /\ obs.since.ttl > 0 /\ obs.at < obs.since.t0 + obs.since.ttl)
        => (obs.exists /\ obs.value = obs.since.value)

\* A Get strictly after the instant of the Set and before its expiry.
ReadYourWriteWitness ==
    /\ obs.since.kind = "set" /\ obs.since.ttl > 0
    /\ obs.since.t0 < obs.at /\ obs.at < obs.since.t0 + obs.since.ttl
    /\ obs.exists /\ obs.value = obs.since.value

\* Get (and the GET command) reports a key absent when the instant is past
\* the expires_at of the entry it finds, whatever the timer has done.
PassiveGet ==
    (obs.entry.expiresAt # ZeroTime /\ obs.at > obs.entry.expiresAt)
        => (~obs.exists /\ obs.reply = NilBulk)

\* The double check of GetOrCreate replaces an entry that is past its
\* expires_at by a fresh entry without expiry.
ExpiredReplaced ==
    \A c \in Callers :
        (/\ goc[c] # "" /\ goc'[c] = ""
         /\ cache[goc[c]].exists
         /\ cache[goc[c]].expiresAt # ZeroTime /\ clock > cache[goc[c]].expiresAt)
            => cache'[goc[c]] = mapEntry("made", NilTimer, ZeroTime)

\* C10: passive expiration: past an entry's expires_at, Get(k) and the GET
\* command report the key absent whether or not the timer's deletion has
\* run, and the double check in GetOrCreate treats the entry as absent and
\* replaces it.
PassiveExpiration == []PassiveGet /\ [][ExpiredReplaced]_vars

\* A Get found an entry still in the table, past its expires_at.
PassiveExpirationWitness ==
    /\ obs.entry.exists /\ obs.entry.expiresAt # ZeroTime
    /\ obs.at > obs.entry.expiresAt /\ ~obs.exists

\* GetOrCreate replaced an expired entry whose timer has not run yet.
ExpiredReplacedReached ==
    \E k \in Keys : \E t \in 1..Len(timers) :
        /\ timers[t].key = k /\ timers[t].state = "armed"
        /\ cache[k] = mapEntry("made", NilTimer, ZeroTime)

----------------------------------------------------------------------------
(* DequeSpec: one ConcurrentDeque driven through its API.  Every call holds *)
(* the deque's lock for its whole body, so each is one step.  The values    *)
(* pushed are all different: v1, v2, ...                                    *)

MaxVals == 3
MaxChans == 2
MaxPush == 2

ValueName(i) == "v" \o ToString(i)

FreshValues(m) == [i \in 1..m |-> ValueName(nextVal + i)]

DequeInit ==
    /\ MapStateInit
    /\ ServerStateInit
    /\ AuxStateIdle
    /\ deques = <<NewConcurrentDeque>>
    /\ chans = << >>
    /\ lastOp = NoOp
    /\ nextVal = 0

\* q.PushBack(values...)
DoPushBack(m) ==
    /\ deques[1].mu = "free"
    /\ nextVal + m <= MaxVals
    /\ LET r == PushBack(deques[1], chans, FreshValues(m))
       IN  /\ deques' = [deques EXCEPT ![1] = r.q]
           /\ chans' = r.chans
           /\ lastOp' = [NoOp EXCEPT !.op = "PushBack", !.values = FreshValues(m), !.ret = r.ret]
    /\ nextVal' = nextVal + m
    /\ UNCHANGED <<mapVars, srvVars>>

\* q.PushFront(values...)
DoPushFront(m) ==
    /\ deques[1].mu = "free"
    /\ nextVal + m <= MaxVals
    /\ LET r == PushFront(deques[1], chans, FreshValues(m))
       IN  /\ deques' = [deques EXCEPT ![1] = r.q]
           /\ chans' = r.chans
           /\ lastOp' = [NoOp EXCEPT !.op = "PushFront", !.values = FreshValues(m), !.ret = r.ret]
    /\ nextVal' = nextVal + m
    /\ UNCHANGED <<mapVars, srvVars>>

\* q.PopFront(n)
DoPopFront(n) ==
    /\ deques[1].mu = "free"
    /\ LET r == popFrontNoLock(deques[1], n)
       IN  /\ deques' = [deques EXCEPT ![1] = r[1]]
           /\ lastOp' = [NoOp EXCEPT !.op = "PopFront", !.n = n, !.res = r[2]]
    /\ UNCHANGED <<chans, nextVal>>
    /\ UNCHANGED <<mapVars, srvVars>>

\* q.PopFrontAsync(timeout)
DoPopFrontAsync(timeout) ==
    /\ deques[1].mu = "free"
    /\ Len(chans) < MaxChans
    /\ LET r == PopFrontAsync(deques[1], chans, timeout)
       IN  /\ deques' = [deques EXCEPT ![1] = r.q]
           /\ chans' = r.chans
           /\ lastOp' = [NoOp EXCEPT !.op = "PopFrontAsync", !.n = timeout, !.ret = r.ch]
    /\ UNCHANGED nextVal
    /\ UNCHANGED <<mapVars, srvVars>>

\* The caller of PopFrontAsync receives from the channel it was given.
DoReceive(ch) ==
    /\ chans[ch].buf # << >>
    /\ chans' = [chans EXCEPT ![ch].buf = Tail(@), ![ch].got = Append(@, Head(chans[ch].buf))]
    /\ lastOp' = [NoOp EXCEPT !.op = "Receive", !.ret = ch, !.res = Slice(Head(chans[ch].buf))]
    /\ UNCHANGED <<deques, nextVal>>
    /\ UNCHANGED <<mapVars, srvVars>>

\* q.GetRange(startIndex, stopIndex)
DoGetRange(startIndex, stopIndex) ==
    /\ deques[1].mu = "free"
    /\ lastOp' = [NoOp EXCEPT !.op = "GetRange", !.n = startIndex, !.m = stopIndex,
                              !.res = GetRange(deques[1], startIndex, stopIndex)]
    /\ UNCHANGED <<deques, chans, nextVal>>
    /\ UNCHANGED <<mapVars, srvVars>>

\* q.Len()
DoLen ==
    /\ deques[1].mu = "free"
    /\ lastOp' = [NoOp EXCEPT !.op = "Len", !.ret = DequeLen(deques[1])]
    /\ UNCHANGED <<deques, chans, nextVal>>
    /\ UNCHANGED <<mapVars, srvVars>>

Timeouts == {0, 1}
PopCounts == {-1, 0, 1, 2}
Indices == {-1, 0, 1}

DequeNext ==
    \/ \E m \in 1..MaxPush : DoPushBack(m)
    \/ \E m \in 1..MaxPush : DoPushFront(m)
    \/ \E n \in PopCounts : DoPopFront(n)
    \/ \E timeout \in Timeouts : DoPopFrontAsync(timeout)
    \/ \E ch \in 1..Len(chans) : DoReceive(ch)
    \/ \E startIndex \in Indices, stopIndex \in Indices : DoGetRange(startIndex, stopIndex)
    \/ DoLen

DequeSpec == DequeInit /\ [][DequeNext]_vars

----------------------------------------------------------------------------
(* Claims about the deque.                                                  *)

Range(f) == {f[i] : i \in DOMAIN f}

\* The step is a completed PushBack / PushFront call.
IsPush(op) == lastOp' # lastOp /\ lastOp'.op = op

\* After the step, v sits in the ring buffer / on a waiter's channel.
InRingAfter(v) == v \in Range(Contents(deques'[1]))
OnChannelAfter(v) == \E ch \in 1..Len(chans') : <<v>> \in Range(chans'[ch].buf)

\* A push on an empty deque with waiters leaves each pushed value either on
\* a waiter's channel or in the ring buffer, and never in both.
PushHandsOffOrStores ==
    ((IsPush("PushBack") \/ IsPush("PushFront"))
        /\ deques[1].count = 0 /\ deques[1].waiters # << >>)
    => \A i \in 1..Len(lastOp'.values) :
          /\ InRingAfter(lastOp'.values[i]) \/ OnChannelAfter(lastOp'.values[i])
          /\ ~(InRingAfter(lastOp'.values[i]) /\ OnChannelAfter(lastOp'.values[i]))

\* C2: handoff is exclusive: when PushBack or PushFront runs on a deque
\* with count == 0 and waiters, a pushed value delivered to a waiter does
\* not enter the ring buffer; after the push every pushed value is held by
\* exactly one of a waiter's channel and the ring buffer.
HandoffExclusive == [][PushHandsOffOrStores]_vars

\* With k waiters w1..wk pending, PushBack(v1..vm) puts exactly [vi] on the
\* channel of wi for i <= min(k, m), leaves the waiters after the m-th
\* pending in their order with nothing delivered, and leaves the values
\* after the k-th at the back of the deque in order.
PushBackServesWaitersInOrder ==
    IsPush("PushBack")
    => LET w == deques[1].waiters
           k == Len(w)
           vs == lastOp'.values
           m == Len(vs)
           after == Contents(deques'[1])
       IN  /\ \A i \in 1..Min(k, m) :
                 chans'[w[i]].buf = << <<vs[i]>> >> /\ chans'[w[i]].got = chans[w[i]].got
           /\ deques'[1].waiters = SubSeq(w, m + 1, k)
           /\ \A i \in (m + 1)..k : chans'[w[i]] = chans[w[i]]
           /\ m > k => /\ Len(after) >= m - k
                       /\ SubSeq(after, Len(after) - (m - k) + 1, Len(after))
                              = SubSeq(vs, k + 1, m)

\* C3: FIFO handoff: waiters w1..wk suspended on an empty deque, then
\* PushBack(v1..vm): wi receives exactly [vi] for i <= min(k, m), the
\* waiters beyond m stay pending in order, the values beyond k are at the
\* back of the deque in order.
FifoHandoff == [][PushBackServesWaitersInOrder]_vars

\* Two waiters were pending on the empty deque; a first PushBack of one
\* value served the older one and left the other pending (k > m); with the
\* deque empty again, a second PushBack of two values served the other
\* waiter and left its last value at the back of the deque (k < m).
FifoHandoffWitness ==
    /\ Len(chans) = 2
    /\ lastOp.op = "PushBack" /\ lastOp.values = <<ValueName(2), ValueName(3)>>
    /\ chans[1].buf = << <<ValueName(1)>> >>
    /\ chans[2].buf = << <<ValueName(2)>> >>
    /\ deques[1].waiters = << >>
    /\ deques[1].count > 0
    /\ Contents(deques[1])[deques[1].count] = ValueName(3)
    /\ ValueName(1) \notin Range(Contents(deques[1]))

----------------------------------------------------------------------------
(* Spec: the server.  main runs ListenStdin and ClientConnectionWorker;     *)
(* ClientConnectionWorker runs the accept goroutine and, per accepted       *)
(* connection, a ReadWorker and a WriteWorker joined by the unbuffered      *)
(* channel c.  A goroutine's step runs up to its next blocking point or     *)
(* its next access to shared state.  The scanner goroutine of               *)
(* CreateScannerChannel is folded into the reader's receive in ParseArray.  *)

MaxRequests == 2

\* The frames the clients of the model send, already split into parameters.
Frames ==
    { <<"PING">>, <<"NOPE">>, <<"RPUSH", "L", "a", "b">>, <<"LPUSH", "L", "c">>,
      <<"LLEN", "L">>, <<"LPOP", "L">>, <<"BLPOP", "L", "1">> }

RECURSIVE SumDispatched(_)
SumDispatched(S) ==
    IF S = {} THEN 0
    ELSE LET c == CHOOSE x \in S : TRUE
         IN  hist[c].dispatched + SumDispatched(S \ {c})

Init == MapStateInit /\ DequeStateIdle /\ ServerStateInit /\ AuxStateIdle

srvFrame == UNCHANGED <<mapVars, lastOp, nextVal, stream, rw, cmd, lk>>

\* net.Listen in ClientConnectionWorker: on success the accept goroutine
\* starts and the loop is entered; on failure ClientConnectionWorker returns
\* and main cancels the context.
Listen(ok) ==
    /\ mainpc = "listen"
    /\ IF ok
       THEN /\ listener' = "open"
            /\ acceptor' = [acceptor EXCEPT !.pc = "accept"]
            /\ mainpc' = "loop"
            /\ UNCHANGED cancelled
       ELSE /\ listener' = "failed"
            /\ mainpc' = "done"
            /\ cancelled' = TRUE
            /\ UNCHANGED acceptor
    /\ UNCHANGED <<lists, conn, reader, writer, hist, deques, chans>>
    /\ srvFrame

\* ListenStdin returns (the operator typed q, or stdin ended) and main's
\* goroutine calls cancel().
StdinQuit ==
    /\ ~cancelled
    /\ cancelled' = TRUE
    /\ UNCHANGED <<lists, listener, acceptor, mainpc, conn, reader, writer, hist, deques, chans>>
    /\ srvFrame

\* listener.Accept() returns a client's connection; connections are
\* numbered in the order they are accepted (clientId).
ClientConnect(c) ==
    /\ acceptor.pc = "accept"
    /\ listener = "open"
    /\ conn[c].state = "new"
    /\ \A d \in Conns : d < c => conn[d].state # "new"
    /\ acceptor' = [pc |-> "hand", c |-> c]
    /\ conn' = [conn EXCEPT ![c].state = "accepted"]
    /\ UNCHANGED <<lists, cancelled, listener, mainpc, reader, writer, hist, deques, chans>>
    /\ srvFrame

\* listener.Accept() fails while the listener is open: the goroutine returns.
AcceptFailure ==
    /\ acceptor.pc = "accept"
    /\ listener = "open"
    /\ acceptor' = [acceptor EXCEPT !.pc = "done"]
    /\ UNCHANGED <<lists, cancelled, listener, mainpc, conn, reader, writer, hist, deques, chans>>
    /\ srvFrame

\* listener.Accept() fails because the listener was closed.
AcceptClosed ==
    /\ acceptor.pc = "accept"
    /\ listener = "closed"
    /\ acceptor' = [acceptor EXCEPT !.pc = "done"]
    /\ UNCHANGED <<lists, cancelled, listener, mainpc, conn, reader, writer, hist, deques, chans>>
    /\ srvFrame

\* The rendezvous on in: the loop receives the connection, makes c and
\* starts the ReadWorker and the WriteWorker.
AcceptorHandoff(c) ==
    /\ acceptor = [pc |-> "hand", c |-> c]
    /\ mainpc = "loop"
    /\ acceptor' = [pc |-> "accept", c |-> 0]
    /\ conn' = [conn EXCEPT ![c].state = "serving"]
    /\ reader' = [reader EXCEPT ![c].pc = "top"]
    /\ writer' = [writer EXCEPT ![c].pc = "run"]
    /\ UNCHANGED <<lists, cancelled, listener, mainpc, hist, deques, chans>>
    /\ srvFrame

\* The accept goroutine's select takes ctx.Done(): conn.Close(), return.
AcceptorCancelled ==
    /\ acceptor.pc = "hand"
    /\ cancelled
    /\ conn' = [conn EXCEPT ![acceptor.c].closed = TRUE]
    /\ acceptor' = [acceptor EXCEPT !.pc = "done"]
    /\ UNCHANGED <<lists, cancelled, listener, mainpc, reader, writer, hist, deques, chans>>
    /\ srvFrame

\* The loop's select takes ctx.Done(): cancel(), return; the deferred
\* listener.Close() runs, then the deferred wg.Wait() starts.
MainShutdown ==
    /\ mainpc = "loop"
    /\ cancelled
    /\ listener' = "closed"
    /\ mainpc' = "wait"
    /\ UNCHANGED <<lists, cancelled, acceptor, conn, reader, writer, hist, deques, chans>>
    /\ srvFrame

\* wg.Wait() returns: the accept goroutine and every worker started have
\* returned.  ClientConnectionWorker returns and main cancels the context.
MainWaitDone ==
    /\ mainpc = "wait"
    /\ acceptor.pc = "done"
    /\ \A c \in Conns : reader[c].pc \in {"idle", "done"} /\ writer[c].pc \in {"idle", "done"}
    /\ mainpc' = "done"
    /\ UNCHANGED <<lists, cancelled, listener, acceptor, conn, reader, writer, hist, deques, chans>>
    /\ srvFrame

\* ReadWorker treating the closed stream as a malformed frame (mutant of
\* ClientDisconnect).
ClientDisconnectAsError(c) ==
    /\ reader[c].pc = "parse"
    /\ ~conn[c].closed
    /\ conn' = [conn EXCEPT ![c].cclosed = TRUE]
    /\ reader' = [reader EXCEPT ![c] = [Sending(@, HandleErrorReply("protocol", TRUE))
                                          EXCEPT !.err = TRUE]]
    /\ UNCHANGED <<lists, cancelled, listener, acceptor, mainpc, writer, hist, deques, chans>>
    /\ srvFrame

\* The client, with no request outstanding, closes its end: ParseArray's
\* first receive finds the scanner channel closed and ReadWorker returns.
ClientDisconnect(c) ==
    /\ reader[c].pc = "parse"
    /\ ~conn[c].closed
    /\ conn' = [conn EXCEPT ![c].cclosed = TRUE]
    /\ reader' = [reader EXCEPT ![c].pc = "done"]
    /\ UNCHANGED <<lists, cancelled, listener, acceptor, mainpc, writer, hist, deques, chans>>
    /\ srvFrame

\* The select at the top of ReadWorker's loop: return (the deferred
\* close(c) runs) when the context is done, else go on to ParseArray.
ReaderTop(c) ==
    /\ reader[c].pc = "top"
    /\ reader' = [reader EXCEPT ![c].pc = IF cancelled THEN "done" ELSE "parse"]
    /\ UNCHANGED <<lists, cancelled, listener, acceptor, mainpc, conn, writer, hist, deques, chans>>
    /\ srvFrame

\* The connection was closed by WriteWorker: the scanner stops and closes
\* its channel, ParseArray returns nil and ReadWorker returns.
ReaderEOF(c) ==
    /\ reader[c].pc = "parse"
    /\ conn[c].closed
    /\ reader' = [reader EXCEPT ![c].pc = "done"]
    /\ UNCHANGED <<lists, cancelled, listener, acceptor, mainpc, conn, writer, hist, deques, chans>>
    /\ srvFrame

\* ParseArray meets a malformed frame: HandleError(str, true) sets err and
\* sends the "-ERRTERM ..." reply on c.
ReaderFatal(c) ==
    /\ reader[c].pc = "parse"
    /\ reader' = [reader EXCEPT ![c] = [Sending(@, HandleErrorReply("protocol", TRUE))
                                          EXCEPT !.err = TRUE]]
    /\ UNCHANGED <<lists, cancelled, listener, acceptor, mainpc, conn, writer, hist, deques, chans>>
    /\ srvFrame

\* ParseArray returns a command array and ReadWorker calls ExecuteCommand,
\* which runs the handler up to its reply or its first call on the list
\* store's lock.
ReaderDispatch(c, params) ==
    /\ reader[c].pc = "parse"
    /\ ~conn[c].closed
    /\ SumDispatched(Conns) < MaxRequests
    /\ hist' = [hist EXCEPT ![c].dispatched = @ + 1]
    /\ reader' = [reader EXCEPT ![c] =
                    ExecuteCommand([@ EXCEPT !.params = params], lists, clock)]
    /\ UNCHANGED <<lists, cancelled, listener, acceptor, mainpc, conn, writer, deques, chans>>
    /\ srvFrame

\* GetOrCreate's slow path under the exclusive lock; the factory
\* NewConcurrentDeque runs only when the key is still absent.
ReaderGetOrCreateSlow(c) ==
    /\ reader[c].pc = "goc"
    /\ LET g == GetOrCreateLocked(lists, clock, reader[c].params[2], Len(deques) + 1)
       IN  /\ lists' = g[1]
           /\ deques' = IF g[1] # lists THEN Append(deques, NewConcurrentDeque) ELSE deques
           /\ reader' = [reader EXCEPT ![c].pc = "op", ![c].handle = g[2], ![c].slow = TRUE]
    /\ UNCHANGED <<cancelled, listener, acceptor, mainpc, conn, writer, hist, chans>>
    /\ srvFrame

\* The handler's call on the deque it holds, under the deque's lock.
ReaderDequeOp(c) ==
    /\ reader[c].pc = "op"
    /\ deques[reader[c].handle].mu = "free"
    /\ LET r == dequeCall(reader[c], deques[reader[c].handle], chans)
       IN  /\ deques' = [deques EXCEPT ![reader[c].handle] = r.q]
           /\ chans' = r.chans
           /\ reader' = [reader EXCEPT ![c] = r.r]
    /\ UNCHANGED <<lists, cancelled, listener, acceptor, mainpc, conn, writer, hist>>
    /\ srvFrame

\* blpop's receive from the channel PopFrontAsync returned completes.
ReaderWaiterReceive(c) ==
    /\ reader[c].pc = "wait"
    /\ chans[reader[c].ch].buf # << >>
    /\ chans' = [chans EXCEPT ![reader[c].ch].buf = Tail(@),
                              ![reader[c].ch].got = Append(@, Head(chans[reader[c].ch].buf))]
    /\ reader' = [reader EXCEPT ![c] =
                    Sending(@, SerializeRespArray(Slice(Head(chans[reader[c].ch].buf))))]
    /\ UNCHANGED <<lists, cancelled, listener, acceptor, mainpc, conn, writer, hist, deques>>
    /\ srvFrame

\* The writer after it received str: WriteString; return (conn.Close())
\* on the "-ERRTERM" prefix; else Flush.
writerAfter(w, k, str) ==
    LET buf == WriteString(w.buf, str)
    IN  IF HasPrefixErrTerm(str)
        THEN [w |-> [w EXCEPT !.pc = "done", !.buf = buf], k |-> [k EXCEPT !.closed = TRUE]]
        ELSE [w |-> [w EXCEPT !.buf = << >>], k |-> [k EXCEPT !.sock = Flush(@, buf)]]

\* The rendezvous on c: the reader's send completes and WriteWorker's
\* select takes the receive.  The reader goes back to the top of its loop,
\* or returns when err is set.
WriterReceive(c) ==
    /\ writer[c].pc = "run"
    /\ reader[c].pc = "send"
    /\ LET a == writerAfter(writer[c], conn[c], reader[c].reply)
       IN  /\ writer' = [writer EXCEPT ![c] = a.w]
           /\ conn' = [conn EXCEPT ![c] = a.k]
    /\ hist' = [hist EXCEPT ![c].handed =
                  Append(@, [req |-> IF reader[c].err THEN 0 ELSE hist[c].dispatched,
                             reply |-> reader[c].reply])]
    /\ reader' = [reader EXCEPT ![c] = [ReaderIdle EXCEPT !.pc = IF reader[c].err THEN "done" ELSE "top",
                                                          !.err = reader[c].err]]
    /\ UNCHANGED <<lists, cancelled, listener, acceptor, mainpc, deques, chans>>
    /\ srvFrame

\* WriteWorker's receive finds c closed by ReadWorker: return, conn.Close().
WriterChanClosed(c) ==
    /\ writer[c].pc = "run"
    /\ reader[c].pc = "done"
    /\ writer' = [writer EXCEPT ![c].pc = "done"]
    /\ conn' = [conn EXCEPT ![c].closed = TRUE]
    /\ UNCHANGED <<lists, cancelled, listener, acceptor, mainpc, reader, hist, deques, chans>>
    /\ srvFrame

\* WriteWorker's select takes ctx.Done(): return, conn.Close().
WriterCancelled(c) ==
    /\ writer[c].pc = "run"
    /\ cancelled
    /\ writer' = [writer EXCEPT ![c].pc = "done"]
    /\ conn' = [conn EXCEPT ![c].closed = TRUE]
    /\ UNCHANGED <<lists, cancelled, listener, acceptor, mainpc, reader, hist, deques, chans>>
    /\ srvFrame

Next ==
    \/ \E ok \in BOOLEAN : Listen(ok)
    \/ StdinQuit
    \/ \E c \in Conns : ClientConnect(c)
    \/ AcceptFailure
    \/ AcceptClosed
    \/ \E c \in Conns : AcceptorHandoff(c)
    \/ AcceptorCancelled
    \/ MainShutdown
    \/ MainWaitDone
    \/ \E c \in Conns : ClientDisconnect(c)
    \/ \E c \in Conns : ReaderTop(c)
    \/ \E c \in Conns : ReaderEOF(c)
    \/ \E c \in Conns : ReaderFatal(c)
    \/ \E c \in Conns, params \in Frames : ReaderDispatch(c, params)
    \/ \E c \in Conns : ReaderGetOrCreateSlow(c)
    \/ \E c \in Conns : ReaderDequeOp(c)
    \/ \E c \in Conns : ReaderWaiterReceive(c)
    \/ \E c \in Conns : WriterReceive(c)
    \/ \E c \in Conns : WriterChanClosed(c)
    \/ \E c \in Conns : WriterCancelled(c)

Spec == Init /\ [][Next]_vars

\* The Go scheduler runs every goroutine that can take a step, and a
\* blocked channel operation or lock completes once it can.  What clients,
\* the operator and the network do is not forced.
Fairness ==
    /\ WF_vars(\E ok \in BOOLEAN : Listen(ok))
    /\ WF_vars(AcceptClosed)
    /\ WF_vars(\E c \in Conns : AcceptorHandoff(c))
    /\ WF_vars(AcceptorCancelled)
    /\ WF_vars(MainShutdown)
    /\ WF_vars(MainWaitDone)
    /\ \A c \in Conns :
         /\ WF_vars(ReaderTop(c))
         /\ WF_vars(ReaderEOF(c))
         /\ WF_vars(ReaderGetOrCreateSlow(c))
         /\ WF_vars(ReaderDequeOp(c))
         /\ WF_vars(ReaderWaiterReceive(c))
         /\ WF_vars(WriterReceive(c))
         /\ WF_vars(WriterChanClosed(c))
         /\ WF_vars(WriterCancelled(c))

FairSpec == Spec /\ Fairness

----------------------------------------------------------------------------
(* Claims about the server.                                                 *)

\* The replies handed to the writer on connection c that answer a request.
Answered(c) == {i \in 1..Len(hist[c].handed) : hist[c].handed[i].req # 0}

\* The reader of c is suspended in BLPOP with a timeout above zero.
BlpopWaits(c) == reader[c].pc = "wait" /\ Atoi(reader[c].params[3]).n > 0

\* Some list holds an element (a push stores all its values in the ring).
SomeListNonEmpty == \E d \in 1..Len(deques) : deques[d].count > 0

\* C4 (BLPOP timeout): a BLPOP with a timeout above zero on a list that
\* stays empty eventually resolves; the reader does not stay suspended on
\* its waiter channel forever.
BlpopTimeoutResolves ==
    \A c \in Conns : BlpopWaits(c) ~> (reader[c].pc # "wait" \/ SomeListNonEmpty)

\* C5 (per-connection ordering): on every connection the i-th reply handed
\* to the writer answers the i-th request dispatched (one reply per request,
\* a fatal-error reply only last), the socket received the answers in that
\* order, and a request is dispatched only once every earlier request's
\* reply has been handed over, also while the reader is suspended in BLPOP.
PerConnectionOrdering ==
    \A c \in Conns :
        LET h == hist[c].handed
        IN  /\ \A i \in 1..Len(h) : h[i].req \in {0, i}
            /\ \A i \in 1..Len(h) : h[i].req = 0 => i = Len(h)
            /\ hist[c].dispatched - Cardinality(Answered(c)) \in {0, 1}
            /\ reader[c].pc \in {"top", "parse"} => hist[c].dispatched = Cardinality(Answered(c))
            /\ reader[c].pc \in {"goc", "op", "wait", "blocked"} =>
                   hist[c].dispatched = Cardinality(Answered(c)) + 1
            /\ conn[c].sock = [i \in 1..Cardinality(Answered(c)) |-> h[i].reply]

\* A connection whose socket received the answers to two requests, the two
\* replies different.
PerConnectionOrderingWitness ==
    \E c \in Conns :
        /\ Len(conn[c].sock) = 2
        /\ conn[c].sock[1] # conn[c].sock[2]
        /\ hist[c].handed[2].req = 2
        /\ hist[c].dispatched = 2

\* The "-ERRTERM" replies in a sequence of replies.
ErrTermIn(seq) == {i \in 1..Len(seq) : HasPrefixErrTerm(seq[i])}

\* C6 (fatal protocol error delivery): the connection is never closed with
\* the "-ERRTERM" reply still in the writer's buffer, and once the writer
\* has returned after a fatal error the socket received exactly one such
\* reply.
FatalErrorDelivered ==
    \A c \in Conns :
        /\ conn[c].closed => ErrTermIn(writer[c].buf) = {}
        /\ (writer[c].pc = "done" /\ ErrTermIn([i \in 1..Len(hist[c].handed) |->
                                                  hist[c].handed[i].reply]) # {})
               => Cardinality(ErrTermIn(conn[c].sock)) = 1

\* C7 (shutdown liveness): once the context is cancelled, the accept
\* goroutine and every reader and writer return, so that wg.Wait() in
\* ClientConnectionWorker returns.
ShutdownCompletes == cancelled ~> (mainpc = "done")

\* C8 (GetOrCreate single ownership): every deque the factory made is the
\* one installed under a key, there is at most one per key, and the handle a
\* command holds for a key is the installed deque, so every push and every
\* waiter of a key is on the same deque.
SingleOwnership ==
    /\ \A d \in 1..Len(deques) : \E k \in ListKeys : lists[k].exists /\ lists[k].data = d
    /\ Len(deques) <= Cardinality(ListKeys)
    /\ \A c \in Conns :
           reader[c].handle # 0 =>
               /\ lists[reader[c].params[2]].exists
               /\ lists[reader[c].params[2]].data = reader[c].handle

\* Two commands that both found the key absent on the fast path and both
\* ran the slow path hold the same handle, and one deque was made.
SingleOwnershipWitness ==
    /\ \A c \in Conns : reader[c].slow /\ reader[c].handle = 1
    /\ Len(deques) = 1

----------------------------------------------------------------------------
(* Further claims about the deque (DequeSpec).                              *)

\* The number of values in a sequence of slices.
RECURSIVE CountItems(_)
CountItems(slices) ==
    IF slices = << >> THEN 0 ELSE Len(Head(slices)) + CountItems(Tail(slices))

\* The number of values delivered so far through PopFrontAsync channels,
\* received by the caller or not yet.
RECURSIVE DeliveredOn(_)
DeliveredOn(chs) ==
    IF chs = << >> THEN 0
    ELSE CountItems(Head(chs).buf) + CountItems(Head(chs).got) + DeliveredOn(Tail(chs))

\* The number of values the PopFront that just ran returned.
PoppedByStep == IF lastOp'.op = "PopFront" THEN Len(lastOp'.res.items) ELSE 0

\* One call changes Len() by the values it pushed minus the values it
\* handed out.
LengthStep ==
    DequeLen(deques'[1]) - DequeLen(deques[1]) =
        (nextVal' - nextVal) - PoppedByStep - (DeliveredOn(chans') - DeliveredOn(chans))

\* C11 (length accounting): Len() is never negative and, starting from 0,
\* every call changes it by (values pushed) - (values returned by PopFront
\* or delivered through a PopFrontAsync channel), so that Len() equals
\* pushed - handed out after any sequence of calls.
LengthAccounting ==
    /\ [](DequeLen(deques[1]) >= 0)
    /\ [][LengthStep]_vars

\* A sequence back to front.
Reverse(s) == [i \in 1..Len(s) |-> s[Len(s) + 1 - i]]

\* A push on a deque with no waiters: PushBack appends the values in
\* order, PushFront leaves them reversed in front, and both return the
\* length before plus the number of values.
PushOrderStep ==
    LET s == Contents(deques[1])
        vs == lastOp'.values
    IN  /\ (IsPush("PushBack") /\ deques[1].waiters = << >>)
               => /\ Contents(deques'[1]) = s \o vs
                  /\ lastOp'.ret = Len(s) + Len(vs)
        /\ (IsPush("PushFront") /\ deques[1].waiters = << >>)
               => /\ Contents(deques'[1]) = Reverse(vs) \o s
                  /\ lastOp'.ret = Len(s) + Len(vs)

\* The same for a push that has to grow the buffer: the deque as it would
\* be with the buffer grown for one element more than its capacity keeps
\* its contents, and a push on it lands at the right end.
GrowKeepsOrder ==
    LET q == deques[1]
        g == resizeIfNecessaryNoLock(q, Len(q.buf) + 1)
    IN  /\ Len(g.buf) = 2 * Len(q.buf)
        /\ Contents(g) = Contents(q)
        /\ Contents(pushBackLoop(g, <<"x", "y">>)) = Contents(q) \o <<"x", "y">>
        /\ Contents(pushFrontLoop(g, <<"x", "y">>)) = <<"y", "x">> \o Contents(q)

\* C12 (push order and result): on a deque with no waiters holding s,
\* PushBack(v1..vm) yields s followed by v1..vm, PushFront(v1..vm) yields
\* vm..v1 followed by s, and both return |s| + m.
PushOrder == [][PushOrderStep]_vars /\ []GrowKeepsOrder

\* No PopFrontAsync was ever called; a PushFront of two values ran on a
\* deque that held one value.
PushOrderWitness ==
    /\ chans = << >>
    /\ lastOp.op = "PushFront"
    /\ Len(lastOp.values) = 2
    /\ lastOp.ret = 3
    /\ Contents(deques[1])[1] = lastOp.values[2]
    /\ Contents(deques[1])[2] = lastOp.values[1]

\* The step is a completed call of the named deque operation.
IsCall(op) == lastOp' # lastOp /\ lastOp'.op = op

\* PopFront(n) on a deque holding s returns the first max(0, min(n, |s|))
\* elements in order and leaves the others in order; with n <= 0 or s empty
\* it returns an empty slice and the deque is as before.
PopFrontStep ==
    IsCall("PopFront")
    => LET s == Contents(deques[1])
           n == lastOp'.n
           k == Max(0, Min(n, Len(s)))
       IN  /\ ~lastOp'.res.nil
           /\ lastOp'.res.items = SubSeq(s, 1, k)
           /\ Contents(deques'[1]) = SubSeq(s, k + 1, Len(s))
           /\ deques'[1].count = Len(s) - k
           /\ (n <= 0 \/ s = << >>) => (lastOp'.res.items = << >> /\ deques'[1] = deques[1])

\* C13 (PopFront): PopFront(n) removes and returns, in order, exactly the
\* first min(n, count) elements and leaves the rest in order; for n <= 0 or
\* an empty deque it returns an empty sequence and changes nothing.
PopFrontTakesPrefix == [][PopFrontStep]_vars

\* PopFront(2) returned two different values in the order they were in
\* and left one element.
PopFrontTakesPrefixWitness ==
    /\ lastOp.op = "PopFront"
    /\ lastOp.n = 2
    /\ Len(lastOp.res.items) = 2
    /\ lastOp.res.items[1] # lastOp.res.items[2]
    /\ deques[1].count = 1

\* The reference slice of s for start, stop: negative indices get the
\* length added, both are clamped to [0, |s| - 1], and the elements
\* start..stop inclusive are taken; empty for an empty s or start > stop.
ReferenceRange(s, start, stop) ==
    LET c == Len(s)
        a == Max(0, Min(c - 1, IF start < 0 THEN c + start ELSE start))
        b == Max(0, Min(c - 1, IF stop < 0 THEN c + stop ELSE stop))
    IN  IF c = 0 \/ a > b THEN << >> ELSE SubSeq(s, a + 1, b + 1)

\* C14 (LRANGE / GetRange): the result of GetRange is the reference slice,
\* and the LRANGE reply is the array of that slice: the empty array *0, not
\* the nil array *-1, for a missing key, an empty list or an inverted range.
RangeMatchesReference ==
    /\ lrangeReply(FALSE, NewConcurrentDeque, 0, -1) = Reply("*", 0, << >>, "")
    /\ lastOp.op = "GetRange" =>
         LET ref == ReferenceRange(Contents(deques[1]), lastOp.n, lastOp.m)
         IN  /\ lastOp.res.items = ref
             /\ lrangeReply(TRUE, deques[1], lastOp.n, lastOp.m) = Reply("*", Len(ref), ref, "")

----------------------------------------------------------------------------
(* CmdSpec: the command handlers run one at a time, each from its dispatch  *)
(* by ExecuteCommand to its reply (or, for a BLPOP on an empty list, to its *)
(* suspension), against the string cache, the list store and the deques;    *)
(* the clock and the cache's timers run in between.                         *)

MaxCommands == 3

CmdFrames ==
    { <<"PING">>, <<"NOPE">>,
      <<"RPUSH", "L">>, <<"RPUSH", "L", "a", "b">>, <<"LPUSH", "L", "c">>,
      <<"LLEN">>, <<"LLEN", "L">>,
      <<"LPOP">>, <<"LPOP", "L">>, <<"LPOP", "L", "2">>, <<"LPOP", "L", "0">>,
      <<"LPOP", "L", "x">>,
      <<"LRANGE", "L", "0">>, <<"LRANGE", "L", "x", "1">>, <<"LRANGE", "L", "0", "-1">>,
      <<"BLPOP", "L">>, <<"BLPOP", "L", "x">>, <<"BLPOP", "L", "1">>,
      <<"SET">>, <<"SET", "k">>, <<"SET", "", "new">>, <<"SET", "k", "">>,
      <<"SET", "k", "new">>, <<"SET", "k", "new", "PX", "0">>,
      <<"SET", "k", "old", "PX", "1">>,
      <<"SET", "k", "new", "PX">>, <<"SET", "k", "new", "PX", "x">>,
      <<"GET">>, <<"GET", "k">> }

\* GetOrCreate's slow path for a handler that missed on the fast path.
afterSlow(r) ==
    IF r.pc = "goc"
    THEN LET g == GetOrCreateLocked(lists, clock, r.params[2], Len(deques) + 1)
         IN  [lists |-> g[1],
              deques |-> IF g[1] # lists THEN Append(deques, NewConcurrentDeque) ELSE deques,
              r |-> [r EXCEPT !.pc = "op", !.handle = g[2], !.slow = TRUE]]
    ELSE [lists |-> lists, deques |-> deques, r |-> r]

\* set.execute calling cache.Set ahead of its checks of the key, the value
\* and the PX option (mutant of setWrite).
setWriteUnchecked(entries, ts, tokens, now) ==
    IF Len(tokens) >= 3 /\ tokens[2] \in DOMAIN entries
    THEN Set(entries, ts, tokens[2], tokens[3], now, setLoop(tokens, 4, 0).ms)
    ELSE <<entries, ts>>

\* The cache and its timers after set.execute: cache.Set is reached only
\* past every error return.
setWrite(entries, ts, tokens, now) ==
    IF setExecute([ReaderIdle EXCEPT !.params = tokens]).pc = "set"
    THEN Set(entries, ts, tokens[2], tokens[3], now, setLoop(tokens, 4, 0).ms)
    ELSE <<entries, ts>>

\* ExecuteCommand(params) run to its send on the response channel; a BLPOP
\* that finds the list empty stays suspended on its waiter channel.
RunCommand(params) ==
    /\ cmd.count < MaxCommands
    /\ LET r0 == ExecuteCommand([ReaderIdle EXCEPT !.params = params], lists, clock)
           a == afterSlow(r0)
           b == IF a.r.pc = "op" THEN dequeCall(a.r, a.deques[a.r.handle], chans)
                ELSE [q |-> NewConcurrentDeque, chans |-> chans, r |-> a.r]
           ms == setLoop(params, 4, 0).ms
           w == IF params[1] = "SET" THEN setWrite(cache, timers, params, clock)
                ELSE <<cache, timers>>
           got == b.r.pc = "wait" /\ b.chans[b.r.ch].buf # << >>
           reply == IF r0.pc = "set" THEN Reply("+", 0, << >>, "OK")
                    ELSE IF r0.pc = "get" THEN getExecute(cache, clock, params[2])
                    ELSE IF b.r.pc = "send" THEN b.r.reply
                    ELSE IF got THEN SerializeRespArray(Slice(Head(b.chans[b.r.ch].buf)))
                    ELSE NoReply
       IN  /\ (r0.pc = "set" /\ ms > 0) => Len(timers) < MaxTimers
           /\ lists' = a.lists
           /\ deques' = IF a.r.pc = "op" THEN [a.deques EXCEPT ![a.r.handle] = b.q]
                        ELSE a.deques
           /\ chans' = IF got THEN [b.chans EXCEPT ![b.r.ch].buf = Tail(@),
                                                    ![b.r.ch].got = Append(@, Head(b.chans[b.r.ch].buf))]
                        ELSE b.chans
           /\ cache' = w[1]
           /\ timers' = w[2]
           /\ cmd' = [params |-> params, reply |-> reply, count |-> cmd.count + 1]
    /\ obs' = NoObs
    /\ UNCHANGED <<clock, goc, written, lastOp, nextVal>>
    /\ UNCHANGED <<cancelled, listener, acceptor, mainpc, conn, reader, writer, hist, stream, rw, lk>>



----------------------------------------------------------------------------
(* Claims about the command handlers (CmdSpec).                             *)

\* The command that has just run to its reply.
Ran(name) ==
    /\ cmd'.count = cmd.count + 1
    /\ Len(cmd'.params) >= 1
    /\ cmd'.params[1] = name

LpopStep ==
    (Ran("LPOP") /\ Len(cmd'.params) \in {2, 3}) =>
        LET p == cmd'.params
            a == IF Len(p) = 3 THEN Atoi(p[3]) ELSE [ok |-> TRUE, n |-> 1]
            g == Get(lists, clock, p[2], 0)
        IN  IF ~a.ok \/ a.n < 1
            THEN cmd'.reply.prefix = "-ERR" /\ UNCHANGED <<lists, deques>>
            ELSE IF ~g[2]
            THEN cmd'.reply = NilBulk /\ UNCHANGED <<lists, deques>>
            ELSE LET old == Contents(deques[g[1]])
                     k == Min(a.n, Len(old))
                 IN  /\ cmd'.reply.prefix = "*"
                     /\ cmd'.reply.n = k
                     /\ cmd'.reply.items = SubSeq(old, 1, k)
                     /\ Contents(deques'[g[1]]) = SubSeq(old, k + 1, Len(old))
                     /\ lists' = lists

\* C15: LPOP key [count] replies the nil bulk $-1 when the key is missing;
\* otherwise it replies an array of the first min(count, len) elements of
\* the list (count is 1 when absent) and the list keeps the rest in order;
\* a count that is not an integer or is below 1 gives an error reply and
\* leaves the list store and every deque as they were.
LpopContract == [][LpopStep]_vars

\* LPOP L 2 on the list c, a, b replied c, a and left b.
LpopContractWitness ==
    /\ cmd.params = <<"LPOP", "L", "2">>
    /\ cmd.reply.items = <<"c", "a">>
    /\ Len(deques) >= 1
    /\ Contents(deques[1]) = <<"b">>


----------------------------------------------------------------------------
(* ParseSpec: ReadWorker's loop over a line stream. A line is the sequence  *)
(* of its bytes; the stream is the lines the scanner channel will deliver   *)
(* before it is closed. Commands are recorded as dispatched, not executed.  *)

MaxLines == 5

StreamLines ==
    { << >>, <<"*", "0">>, <<"*", "1">>, <<"*", "2">>, <<"*", "-", "1">>, <<"*", "x">>,
      <<"$", "1">>, <<"$", "-", "1">>, <<"a">>, <<"a", "b">> }

DigitVal ==
    ("0" :> 0) @@ ("1" :> 1) @@ ("2" :> 2) @@ ("3" :> 3) @@ ("4" :> 4) @@
    ("5" :> 5) @@ ("6" :> 6) @@ ("7" :> 7) @@ ("8" :> 8) @@ ("9" :> 9)

RECURSIVE decimal(_, _)
decimal(s, acc) == IF s = << >> THEN acc ELSE decimal(Tail(s), 10 * acc + DigitVal[Head(s)])

\* strconv.Atoi of a line's bytes: an optional sign, then one or more digits.
AtoiLine(s) ==
    LET signed == Len(s) >= 1 /\ s[1] \in {"+", "-"}
        body == IF signed THEN Tail(s) ELSE s
    IN  IF body = << >> \/ \E i \in 1..Len(body) : body[i] \notin DOMAIN DigitVal
        THEN [ok |-> FALSE, n |-> 0]
        ELSE [ok |-> TRUE, n |-> IF s[1] = "-" THEN 0 - decimal(body, 0) ELSE decimal(body, 0)]

\* handleError(str, true) followed by return nil.
Fatal(str, rest) == [ret |-> NilSlice, fatal |-> str, rest |-> rest]

\* The element loop of ParseArray with k elements still to read.
RECURSIVE parseElements(_, _, _)
parseElements(k, scan, ret) ==
    IF k = 0 THEN [ret |-> Slice(ret), fatal |-> "", rest |-> scan]
    ELSE IF scan = << >> THEN Fatal("Channel closed while parsing array element", scan)
    ELSE LET line == Head(scan)
         IN  IF line = << >>
             THEN Fatal("Unexpected empty line while parsing array element", Tail(scan))
             ELSE IF line[1] # "$"
             THEN Fatal("Expected bulk string marker '$'", Tail(scan))
             ELSE IF ~AtoiLine(Tail(line)).ok
             THEN Fatal("Invalid bulk string length", Tail(scan))
             ELSE IF AtoiLine(Tail(line)).n < 0
             THEN Fatal("Bulk string length cannot be negative", Tail(scan))
             ELSE IF Len(scan) < 2
             THEN Fatal("Channel closed while reading bulk string data", << >>)
             ELSE IF Len(scan[2]) # AtoiLine(Tail(line)).n
             THEN Fatal("Bulk string length mismatch", SubSeq(scan, 3, Len(scan)))
             ELSE parseElements(k - 1, SubSeq(scan, 3, Len(scan)), Append(ret, scan[2]))

\* ParseArray on the lines the channel still delivers: the array (nil on a
\* closed channel, an empty line and every error), the message handed to
\* handleError if any, and the lines left on the channel.
ParseArray(scan) ==
    IF scan = << >> THEN [ret |-> NilSlice, fatal |-> "", rest |-> scan]
    ELSE LET line == Head(scan)
         IN  IF line = << >> THEN [ret |-> NilSlice, fatal |-> "", rest |-> Tail(scan)]
             ELSE IF line[1] # "*"
             THEN Fatal("ParseArray called on non-array!", Tail(scan))
             ELSE IF ~AtoiLine(Tail(line)).ok
             THEN Fatal("Could not extract array size!", Tail(scan))
             ELSE IF AtoiLine(Tail(line)).n < 0
             THEN Fatal("Array size cannot be negative", Tail(scan))
             ELSE parseElements(AtoiLine(Tail(line)).n, Tail(scan), << >>)

\* HandleError(str, true): the reply sent on the response channel.
ErrTerm(str) == Reply("-ERRTERM", 0, << >>, str)

\* ReadWorker's loop without its 'len(commandArray) == 0' return: the empty
\* array goes to ExecuteCommand like any other.
ReadWorkerLoopNoEmptyCheck ==
    /\ rw.pc = "loop"
    /\ LET p == ParseArray(stream)
       IN  /\ stream' = p.rest
           /\ rw' = IF p.fatal # ""
                    THEN [rw EXCEPT !.pc = "done", !.sent = Append(@, ErrTerm(p.fatal))]
                    ELSE [rw EXCEPT !.dispatched = Append(@, p.ret.items)]
    /\ UNCHANGED <<mapVars, dequeVars, lists, cmd, lk>>
    /\ UNCHANGED <<cancelled, listener, acceptor, mainpc, conn, reader, writer, hist>>

\* One iteration of ReadWorker's loop: ParseArray, then exit on err, exit
\* on an empty array, or hand the command to ExecuteCommand.
ReadWorkerLoop ==
    /\ rw.pc = "loop"
    /\ LET p == ParseArray(stream)
       IN  /\ stream' = p.rest
           /\ rw' = IF p.fatal # ""
                    THEN [rw EXCEPT !.pc = "done", !.sent = Append(@, ErrTerm(p.fatal))]
                    ELSE IF Len(p.ret.items) = 0 THEN [rw EXCEPT !.pc = "done"]
                    ELSE [rw EXCEPT !.dispatched = Append(@, p.ret.items)]
    /\ UNCHANGED <<mapVars, dequeVars, lists, cmd, lk>>
    /\ UNCHANGED <<cancelled, listener, acceptor, mainpc, conn, reader, writer, hist>>

\* Bounded sequences over S.
SeqUpTo(S, n) == UNION { [1..k -> S] : k \in 0..n }

ParseInit ==
    /\ MapStateInit
    /\ DequeStateIdle
    /\ ServerStateInit
    /\ cmd = NoCmd
    /\ lk = NoLock
    /\ stream \in SeqUpTo(StreamLines, MaxLines)
    /\ rw = [NoLoop EXCEPT !.pc = "loop"]

ParseNext == ReadWorkerLoop

ParseSpec == ParseInit /\ [][ParseNext]_vars

\* Lines that do not begin a well-formed command.
MalformedStreams ==
    { << <<"*", "x">> >>, << <<"a">> >>, << <<"*", "1">> >>,
      << <<"*", "1">>, <<"$", "1">>, <<"a", "b">> >> }

\* An iteration of ReadWorker's loop in which ParseArray fails: HandleError
\* sends the "-ERRTERM ..." reply and nothing is dispatched.
ReadMalformed(scan) ==
    /\ cmd.count < MaxCommands
    /\ ParseArray(scan).fatal # ""
    /\ cmd' = [params |-> << >>, reply |-> ErrTerm(ParseArray(scan).fatal),
               count |-> cmd.count + 1]
    /\ obs' = NoObs
    /\ UNCHANGED <<clock, cache, timers, goc, written, dequeVars, lists, stream, rw, lk>>
    /\ UNCHANGED <<cancelled, listener, acceptor, mainpc, conn, reader, writer, hist>>

CmdNext ==
    \/ \E params \in CmdFrames : RunCommand(params)
    \/ \E scan \in MalformedStreams : ReadMalformed(scan)
    \/ Tick
    \/ \E t \in 1..Len(timers) : TimerFire(t)
    \/ \E t \in 1..Len(timers) : TimerCallback(t)

CmdSpec == Init /\ [][CmdNext]_vars

\* A non-negative decimal: one or more digits, no sign.
IsDecimal(s) == s # << >> /\ \A i \in 1..Len(s) : s[i] \in DOMAIN DigitVal

\* scan begins with the n pairs ('$L', payload of length L).
WellFormedElements(scan, n) ==
    /\ Len(scan) >= 2 * n
    /\ \A i \in 1..n :
          /\ scan[2 * i - 1] # << >>
          /\ scan[2 * i - 1][1] = "$"
          /\ IsDecimal(Tail(scan[2 * i - 1]))
          /\ Len(scan[2 * i]) = decimal(Tail(scan[2 * i - 1]), 0)

\* scan begins with '*n' and n well-formed pairs.
WellFormedFrame(scan) ==
    /\ scan # << >>
    /\ Head(scan) # << >>
    /\ Head(scan)[1] = "*"
    /\ IsDecimal(Tail(Head(scan)))
    /\ WellFormedElements(Tail(scan), decimal(Tail(Head(scan)), 0))

FrameSize(scan) == decimal(Tail(Head(scan)), 0)

Payloads(scan) == [i \in 1..FrameSize(scan) |-> scan[2 * i + 1]]

ParserStep ==
    (rw.pc = "loop" /\ rw' # rw) =>
        IF stream = << >>
        THEN rw' = [rw EXCEPT !.pc = "done"]
        ELSE IF WellFormedFrame(stream)
        THEN /\ ParseArray(stream).ret.items = Payloads(stream)
             /\ rw'.sent = rw.sent
             /\ FrameSize(stream) > 0 =>
                    rw' = [rw EXCEPT !.dispatched = Append(@, Payloads(stream))]
        ELSE /\ rw'.pc = "done"
             /\ Len(rw'.sent) = Len(rw.sent) + 1
             /\ rw'.sent[Len(rw'.sent)].prefix = "-ERRTERM"
             /\ rw'.dispatched = rw.dispatched

\* C16: at a command boundary ParseArray returns the n payloads in order
\* exactly when the lines ahead are '*n' followed by n pairs ('$L', payload
\* of L bytes) with n and L non-negative decimals; a closed stream is a
\* clean exit; every other input makes the reader emit one -ERRTERM reply,
\* dispatch nothing from that frame and stop (no later dispatch).
ParserAcceptance == [][ParserStep]_vars /\ [][rw.pc = "done" => rw' = rw]_vars


----------------------------------------------------------------------------
(* Further claims about the server (Spec, FairSpec).                        *)

\* The client's stream closes on connection c in this step.
StreamCloses(c) == conn'[c].cclosed /\ ~conn[c].cclosed

DisconnectStep ==
    \A c \in Conns :
        /\ StreamCloses(c) =>
              /\ reader'[c].pc = "done"
              /\ hist'[c] = hist[c]
              /\ \A i \in 1..hist[c].dispatched :
                    \E j \in 1..Len(hist[c].handed) : hist[c].handed[j].req = i
        /\ conn[c].cclosed => (hist'[c] = hist[c] /\ reader'[c].pc = "done")

\* The scheduling the disconnect relies on: a WriteWorker whose receive
\* can complete on the closed reply channel is eventually run.
WriterFairSpec == Spec /\ \A c \in Conns : WF_vars(WriterChanClosed(c))

\* C17 (clean disconnect): when ParseArray finds the stream closed at a
\* command boundary the reader returns (closing its reply channel) without
\* handing any reply, error or other, to the writer, now or later; the
\* replies to all commands dispatched before were handed over already; and
\* the writer then returns and the socket is closed.
CleanDisconnect ==
    /\ [][DisconnectStep]_vars
    /\ \A c \in Conns : conn[c].cclosed ~> (writer[c].pc = "done" /\ conn[c].closed)

\* A client that got the answer to a request closed its stream, and the
\* writer returned on the closed reply channel (no cancellation, no fatal
\* error) and closed the socket.
CleanDisconnectWitness ==
    \E c \in Conns :
        /\ conn[c].cclosed
        /\ hist[c].dispatched >= 1
        /\ Len(conn[c].sock) = hist[c].dispatched
        /\ writer[c].pc = "done"
        /\ conn[c].closed
        /\ ~cancelled


----------------------------------------------------------------------------
(* Claims about error replies (CmdSpec).                                    *)

\* The first byte of a reply string.
FirstByte(reply) ==
    IF reply.prefix \in {"-ERR", "-ERRTERM"} THEN "-"
    ELSE IF reply.prefix = "Unrecognized" THEN "U"
    ELSE IF reply.prefix = "Command" THEN "C"
    ELSE IF reply.prefix = "usage" THEN "\n"
    ELSE reply.prefix

\* The names in resp2_Commands_Map that the model runs.
KnownCommands == {"PING", "RPUSH", "LPUSH", "LLEN", "LPOP", "BLPOP", "LRANGE", "SET", "GET"}

WrongArity(p) ==
    LET name == p[1]
        n == Len(p)
    IN  \/ name \in {"RPUSH", "LPUSH"} /\ n < 3
        \/ name = "LLEN" /\ n # 2
        \/ name = "LPOP" /\ n \notin {2, 3}
        \/ name = "BLPOP" /\ n # 3
        \/ name = "LRANGE" /\ n # 4
        \/ name = "SET" /\ n < 3
        \/ name = "GET" /\ n < 2

UnparsableNumber(p) ==
    LET name == p[1]
        n == Len(p)
    IN  \/ name \in {"LPOP", "BLPOP"} /\ n = 3 /\ ~Atoi(p[3]).ok
        \/ name = "LRANGE" /\ n = 4 /\ (~Atoi(p[3]).ok \/ ~Atoi(p[4]).ok)
        \/ name = "SET" /\ \E i \in 4..(n - 1) : p[i] = "PX" /\ ~Atoi(p[i + 1]).ok

\* The command-level errors: unknown name, wrong arity, unparsable
\* number, LLEN on a missing key, empty key or value for SET.
CommandLevelError(p, entries, now) ==
    \/ p[1] \notin KnownCommands
    \/ WrongArity(p)
    \/ UnparsableNumber(p)
    \/ p[1] = "LLEN" /\ Len(p) = 2 /\ ~Get(entries, now, p[2], 0)[2]
    \/ p[1] = "SET" /\ Len(p) >= 3 /\ (p[2] = "" \/ p[3] = "")

ErrorReplyStep ==
    (cmd'.count = cmd.count + 1 /\ cmd'.params # << >>
        /\ CommandLevelError(cmd'.params, lists, clock)) =>
        /\ FirstByte(cmd'.reply) = "-"
        /\ cmd'.reply.prefix # "-ERRTERM"

\* C18: an unknown command name, a wrong arity, an unparsable numeric
\* argument, LLEN on a missing key and an empty key or value for SET are
\* each answered by a reply that begins with '-' and does not carry the
\* terminate marker (so ReadWorker, which returns only on err or an empty
\* array, goes on to the next command).
CommandErrorsAreErrorReplies == [][ErrorReplyStep]_vars


\* A reply that reports an error: "-ERR ...", "-ERRTERM ..." or the reply
\* to an unknown command.
IsErrorReply(reply) == FirstByte(reply) = "-" \/ reply.prefix = "Unrecognized"

ErrorFrameStep ==
    (cmd'.count = cmd.count + 1 /\ IsErrorReply(cmd'.reply)) =>
        UNCHANGED <<cache, timers, lists, deques, chans>>

\* C19: a command whose reply is an error, and a fatal protocol error,
\* leave the string cache (and its timers), the list store with its key
\* set, every deque and every waiter channel exactly as they were.
ErrorsLeaveStateUnchanged == [][ErrorFrameStep]_vars

\* An error reply (SET with an unparsable PX) given while the cache holds a
\* value and the list holds elements.
ErrorsLeaveStateUnchangedWitness ==
    /\ cmd.params = <<"SET", "k", "new", "PX", "x">>
    /\ IsErrorReply(cmd.reply)
    /\ cache["k"].exists
    /\ Len(deques) >= 1
    /\ deques[1].count > 0


----------------------------------------------------------------------------
(* Claims about SET and GET (CmdSpec).                                      *)

OkReply == Reply("+", 0, << >>, "OK")

\* The SET that has just run stored its value.
SetStored(k) ==
    /\ Ran("SET")
    /\ Len(cmd'.params) >= 3
    /\ cmd'.params[2] = k
    /\ cmd'.reply = OkReply

\* SET without PX, or with PX 0 as its only option.
WithoutExpiry(p) == Len(p) = 3 \/ (Len(p) = 5 /\ p[4] = "PX" /\ p[5] = "0")

\* An entry holding value with no time to live.
Permanent(entry, value) ==
    /\ entry.exists
    /\ entry.data = value
    /\ entry.expiresAt = ZeroTime
    /\ entry.timer = NilTimer

NoExpirySetStep ==
    \A k \in Keys :
        /\ (SetStored(k) /\ WithoutExpiry(cmd'.params)) =>
               Permanent(cache'[k], cmd'.params[3])
        /\ (Permanent(cache[k], cache[k].data) /\ ~SetStored(k)) =>
               /\ cache'[k] = cache[k]
               /\ (Ran("GET") /\ cmd'.params = <<"GET", k>>) =>
                      cmd'.reply = Bulk(cache[k].data)

\* C20: a SET without PX, or with PX 0, stores an entry without time to
\* live, also over an entry that had one; no tick of the clock, no timer
\* (fired before or after the SET) and no other command changes such an
\* entry, and GET replies its value, until the next SET of the key.
NoExpirySet == [][NoExpirySetStep]_vars

\* GET k replied the value of a SET without PX after the timer of the
\* earlier SET k old PX 1 had fired and its function had run.
NoExpirySetWitness ==
    /\ cmd.params = <<"GET", "k">>
    /\ cmd.reply = Bulk("new")
    /\ Len(timers) = 1
    /\ timers[1].state = "skipped"
    /\ clock > timers[1].deadline


----------------------------------------------------------------------------
(* GrowSpec: one ConcurrentDeque driven with batches large enough to fill   *)
(* the 16 slots, wrap the head and the tail, and grow the buffer once or    *)
(* twice in one call.                                                       *)

MaxGrowVals == 33

GrowBatches == {8, 33}
GrowPops == {12}

\* q.PushBack(values...) with a batch of m values.
DoPushBackBatch(m) ==
    /\ deques[1].mu = "free"
    /\ nextVal + m <= MaxGrowVals
    /\ LET r == PushBack(deques[1], chans, FreshValues(m))
       IN  /\ deques' = [deques EXCEPT ![1] = r.q]
           /\ chans' = r.chans
           /\ lastOp' = [NoOp EXCEPT !.op = "PushBack", !.values = FreshValues(m), !.ret = r.ret]
    /\ nextVal' = nextVal + m
    /\ UNCHANGED <<mapVars, srvVars>>

\* q.PushFront(values...) with a batch of m values.
DoPushFrontBatch(m) ==
    /\ deques[1].mu = "free"
    /\ nextVal + m <= MaxGrowVals
    /\ LET r == PushFront(deques[1], chans, FreshValues(m))
       IN  /\ deques' = [deques EXCEPT ![1] = r.q]
           /\ chans' = r.chans
           /\ lastOp' = [NoOp EXCEPT !.op = "PushFront", !.values = FreshValues(m), !.ret = r.ret]
    /\ nextVal' = nextVal + m
    /\ UNCHANGED <<mapVars, srvVars>>

GrowNext ==
    \/ \E m \in GrowBatches : DoPushBackBatch(m)
    \/ \E m \in GrowBatches : DoPushFrontBatch(m)
    \/ \E n \in GrowPops : DoPopFront(n)
    \/ DoPopFrontAsync(1)

GrowSpec == DequeInit /\ [][GrowNext]_vars


----------------------------------------------------------------------------
(* Claims about BLPOP (Spec, DequeSpec).                                    *)

\* "*-1\r\n"
NilArray == Reply("*", -1, << >>, "")

\* The reader of c is sending the reply of a BLPOP that passed its checks.
BlpopReplies(c) ==
    /\ reader[c].pc = "send"
    /\ reader[c].params # << >>
    /\ reader[c].params[1] = "BLPOP"
    /\ reader[c].reply.prefix = "*"

\* C21 (BLPOP reply shape): a BLPOP that got a value replies the array of
\* two elements [key, value], whether the value was in the list when BLPOP
\* arrived or was handed over by a later push; a BLPOP that timed out
\* replies the nil array.
BlpopReplyShape ==
    \A c \in Conns :
        BlpopReplies(c) =>
            \/ reader[c].reply = NilArray
            \/ /\ reader[c].reply.n = 2
               /\ Len(reader[c].reply.items) = 2
               /\ reader[c].reply.items[1] = reader[c].params[2]


\* The head of the list a push of vs produces on an empty list: the first
\* value for PushBack, the last one for PushFront.
HeadAfterPush(op, vs) == IF op = "PushBack" THEN vs[1] ELSE vs[Len(vs)]

PushDeliversHeadStep ==
    ((IsPush("PushBack") \/ IsPush("PushFront"))
        /\ deques[1].count = 0 /\ deques[1].waiters # << >>)
    => chans'[Head(deques[1].waiters)].buf
           = << <<HeadAfterPush(lastOp'.op, lastOp'.values)>> >>

\* C22 (BLPOP is the blocking LPOP): the caller suspended first on an empty
\* list receives, from the push that wakes it, the element at the head of
\* the list that push produces (the element LPOP would return): v1 for
\* PushBack(v1..vm), vm for PushFront(v1..vm).
BlpopReceivesHead == [][PushDeliversHeadStep]_vars

\* C23 (waiter/buffer exclusion): whenever the ring buffer holds an
\* element, no waiter is pending.
WaitersOnlyWhenEmpty == deques[1].count > 0 => deques[1].waiters = << >>


\* The values ever put on channel ch, received by its caller or not yet.
DeliveredTo(chs, ch) == CountItems(chs[ch].buf) + CountItems(chs[ch].got)

\* The positions in the waiter queue whose channel this step delivers to.
ServedByStep ==
    {i \in 1..Len(deques[1].waiters) :
        DeliveredTo(chans', deques[1].waiters[i]) > DeliveredTo(chans, deques[1].waiters[i])}

WaiterResolutionStep ==
    LET w == deques[1].waiters
    IN  /\ \A i \in ServedByStep :
              /\ Len(chans'[w[i]].buf) = 1
              /\ Len(chans'[w[i]].buf[1]) = 1
              /\ chans'[w[i]].buf[1][1] \in Range(lastOp'.values)
              /\ w[i] \notin Range(deques'[1].waiters)
        /\ \A i, j \in ServedByStep :
              i # j => chans'[w[i]].buf[1][1] # chans'[w[j]].buf[1][1]

\* A pending waiter has received nothing, is queued once, and no channel
\* ever carries more than one value.
WaiterResolutionInv ==
    LET w == deques[1].waiters
    IN  /\ \A i \in 1..Len(w) : DeliveredTo(chans, w[i]) = 0
        /\ \A i, j \in 1..Len(w) : i # j => w[i] # w[j]
        /\ \A ch \in 1..Len(chans) : DeliveredTo(chans, ch) <= 1

----------------------------------------------------------------------------
(* LockSpec: two goroutines calling one ConcurrentDeque, each call split    *)
(* at its lock acquisition, at every iteration of its loop and at its       *)
(* return (the deferred unlock).  No PopFrontAsync is called, so the        *)
(* deferred notifyAwaiters finds no waiter.  lk.abs is the list as the      *)
(* calls would leave it if each ran alone, in the order they got the lock.  *)

MaxLockVals == 3

\* q.mu.Lock() can return: no writer and no reader holds the mutex.
CanLock(l) == l.writer = 0 /\ l.readers = {}

\* RLock that never waits (mutant of CanRLock).
CanRLockAlways(l) == TRUE

\* q.mu.RLock() can return: no writer holds the mutex.
CanRLock(l) == l.writer = 0

lockFrame ==
    UNCHANGED <<mapVars, chans, lists, cancelled, listener, acceptor, mainpc, conn, reader,
                writer, hist, stream, rw, cmd>>

\* PushBack / PushFront up to its loop: Lock, resizeIfNecessaryNoLock.
LockPush(c, op, m) ==
    /\ lk.g[c].pc = "idle"
    /\ CanLock(lk)
    /\ nextVal + m <= MaxLockVals
    /\ deques' = [deques EXCEPT ![1] = resizeIfNecessaryNoLock(@, @.count + m)]
    /\ lk' = [lk EXCEPT !.writer = c,
                        !.g[c] = [NoCall EXCEPT !.pc = "push", !.op = op,
                                                !.values = FreshValues(m)],
                        !.abs = IF op = "PushBack" THEN @ \o FreshValues(m)
                                ELSE Reverse(FreshValues(m)) \o @]
    /\ nextVal' = nextVal + m
    /\ UNCHANGED lastOp
    /\ lockFrame

\* One iteration of the push loop.
PushIter(c) ==
    /\ lk.g[c].pc = "push"
    /\ lk.g[c].values # << >>
    /\ deques' = [deques EXCEPT ![1] =
                    IF lk.g[c].op = "PushBack" THEN pushBackLoop(@, <<Head(lk.g[c].values)>>)
                    ELSE pushFrontLoop(@, <<Head(lk.g[c].values)>>)]
    /\ lk' = [lk EXCEPT !.g[c].values = Tail(@)]
    /\ UNCHANGED <<lastOp, nextVal>>
    /\ lockFrame

\* return q.count, then the deferred notifyAwaiters and Unlock.
PushReturn(c) ==
    /\ lk.g[c].pc = "push"
    /\ lk.g[c].values = << >>
    /\ lastOp' = [NoOp EXCEPT !.op = lk.g[c].op, !.ret = deques[1].count]
    /\ lk' = [lk EXCEPT !.writer = 0, !.g[c] = NoCall]
    /\ UNCHANGED <<deques, nextVal>>
    /\ lockFrame

\* PopFront(n) up to the loop of popFrontNoLock: Lock, the clamp of n.
LockPop(c, n) ==
    /\ lk.g[c].pc = "idle"
    /\ CanLock(lk)
    /\ lk' = [lk EXCEPT !.writer = c,
                        !.g[c] = [NoCall EXCEPT !.pc = "pop", !.op = "PopFront",
                                                !.n = Max(0, Min(n, deques[1].count)),
                                                !.snap = SubSeq(lk.abs, 1, Min(n, Len(lk.abs)))],
                        !.abs = SubSeq(@, Min(n, Len(@)) + 1, Len(@))]
    /\ UNCHANGED <<deques, lastOp, nextVal>>
    /\ lockFrame

\* One iteration of the loop of popFrontNoLock.
PopIter(c) ==
    /\ lk.g[c].pc = "pop"
    /\ lk.g[c].n > 0
    /\ LET r == popLoop(deques[1], 1, lk.g[c].res)
       IN  /\ deques' = [deques EXCEPT ![1] = r[1]]
           /\ lk' = [lk EXCEPT !.g[c].n = @ - 1, !.g[c].res = r[2].items]
    /\ UNCHANGED <<lastOp, nextVal>>
    /\ lockFrame

\* return res, then the deferred Unlock.
PopReturn(c) ==
    /\ lk.g[c].pc = "pop"
    /\ lk.g[c].n = 0
    /\ lastOp' = [NoOp EXCEPT !.op = "PopFront", !.res = Slice(lk.g[c].res)]
    /\ lk' = [lk EXCEPT !.writer = 0, !.g[c] = NoCall]
    /\ UNCHANGED <<deques, nextVal>>
    /\ lockFrame

\* GetRange(0, -1) up to its loop, or Len() up to its return: RLock; for
\* GetRange the count it reads fixes the number of elements to copy.
RLockRead(c, op) ==
    /\ lk.g[c].pc = "idle"
    /\ CanRLock(lk)
    /\ lk' = [lk EXCEPT !.readers = @ \cup {c},
                        !.g[c] = [NoCall EXCEPT !.pc = "read", !.op = op,
                                                !.n = IF op = "GetRange" THEN deques[1].count
                                                      ELSE 0,
                                                !.snap = lk.abs]]
    /\ UNCHANGED <<deques, lastOp, nextVal>>
    /\ lockFrame

\* One iteration of GetRange's loop: result[i] = q.buf[(q.head + i) & mask].
ReadIter(c) ==
    /\ lk.g[c].pc = "read"
    /\ Len(lk.g[c].res) < lk.g[c].n
    /\ lk' = [lk EXCEPT !.g[c].res =
                Append(@, deques[1].buf[And(deques[1].head + Len(@),
                                            Len(deques[1].buf) - 1) + 1])]
    /\ UNCHANGED <<deques, lastOp, nextVal>>
    /\ lockFrame

\* return result (nil for an empty deque) / return q.count, then RUnlock.
ReadReturn(c) ==
    /\ lk.g[c].pc = "read"
    /\ Len(lk.g[c].res) = lk.g[c].n
    /\ lastOp' = [NoOp EXCEPT !.op = lk.g[c].op,
                              !.ret = IF lk.g[c].op = "Len" THEN deques[1].count ELSE 0,
                              !.res = IF lk.g[c].op = "GetRange" /\ lk.g[c].n > 0
                                      THEN Slice(lk.g[c].res) ELSE NilSlice]
    /\ lk' = [lk EXCEPT !.readers = @ \ {c}, !.g[c] = NoCall]
    /\ UNCHANGED <<deques, nextVal>>
    /\ lockFrame

LockNext ==
    \E c \in Callers :
        \/ \E op \in {"PushBack", "PushFront"}, m \in 1..MaxPush : LockPush(c, op, m)
        \/ PushIter(c)
        \/ PushReturn(c)
        \/ \E n \in {1, 2} : LockPop(c, n)
        \/ PopIter(c)
        \/ PopReturn(c)
        \/ \E op \in {"GetRange", "Len"} : RLockRead(c, op)
        \/ ReadIter(c)
        \/ ReadReturn(c)

LockSpec == DequeInit /\ [][LockNext]_vars

\* The call of c returns in this step.
Returns(c, pc) == lk.g[c].pc = pc /\ lk'.g[c].pc = "idle"

LinearizableStep ==
    \A c \in Callers :
        /\ Returns(c, "push") => lastOp'.ret = Len(lk.abs)
        /\ Returns(c, "pop") => lastOp'.res.items = lk.g[c].snap
        /\ (Returns(c, "read") /\ lk.g[c].op = "Len") => lastOp'.ret = Len(lk.g[c].snap)
        /\ (Returns(c, "read") /\ lk.g[c].op = "GetRange") =>
               lastOp'.res.items = lk.g[c].snap

----------------------------------------------------------------------------
(* Active expiration (MapFairSpec): time passes, the runtime starts the     *)
(* goroutine of a timer whose deadline has come, and that goroutine gets    *)
(* the map's lock.                                                          *)

MapFairSpec ==
    /\ MapSpec
    /\ WF_vars(Tick)
    /\ \A t \in 1..MaxTimers : WF_vars(t <= Len(timers) /\ TimerFire(t))
    /\ \A t \in 1..MaxTimers : WF_vars(t <= Len(timers) /\ TimerCallback(t))

\* The entry Set wrote together with timer t is still the entry of its key,
\* and the timer's deadline is an instant the clock reaches.
Pending(t) ==
    /\ t <= Len(timers)
    /\ timers[t].state \in {"armed", "fired"}
    /\ timers[t].deadline <= MaxClock
    /\ cache[timers[t].key].exists
    /\ cache[timers[t].key].timer = t

\* The entry of timer t is no longer in the table: removed or replaced.
Left(t) ==
    /\ t <= Len(timers)
    /\ ~(cache[timers[t].key].exists /\ cache[timers[t].key].timer = t)

\* The function of timer t removes an entry in this step.
CallbackDeletes(t) ==
    /\ t <= Len(timers)
    /\ timers[t].state = "fired"
    /\ timers'[t].state = "deleted"

ActiveExpirationStep ==
    \A t \in 1..MaxTimers :
        /\ CallbackDeletes(t) =>
              /\ clock >= cache[timers[t].key].expiresAt
              /\ cache[timers[t].key].timer = t
              /\ cache'[timers[t].key] = NoEntry("")
        /\ (Pending(t) /\ Left(t)' /\ written' = written /\ goc' = goc) => CallbackDeletes(t)

\* C26 (active expiration): an entry written by Set with a positive time to
\* live eventually leaves the entry table unless it is overwritten or
\* deleted first; short of a write, only the timer's function takes it out,
\* at or after expiresAt, and it leaves the key absent from the table.
ActiveExpiration ==
    /\ \A t \in 1..MaxTimers : Pending(t) ~> Left(t)
    /\ [][ActiveExpirationStep]_vars

\* The function of a timer ran after the entry's expiry and the key is gone
\* from the table, the last write to the key being the Set with that expiry.
ActiveExpirationWitness ==
    \E t \in 1..Len(timers) :
        /\ timers[t].state = "deleted"
        /\ ~cache[timers[t].key].exists
        /\ written[timers[t].key].kind = "set"
        /\ written[timers[t].key].t0 + written[timers[t].key].ttl = timers[t].deadline
        /\ clock > timers[t].deadline


----------------------------------------------------------------------------
(* Claims about Get as an observation (MapSpec).                            *)

\* No writer runs in this step: the table and the timers stay as they are.
NoWriterStep == cache' = cache /\ timers' = timers /\ written' = written /\ goc' = goc

\* Get leaves the table and the timers alone.
GetSideEffectFree == (\E k \in Keys : CallGet(k)) => (cache' = cache /\ timers' = timers)

\* What a Get of k returns is the same before and after the step.
SameObservation == \A k \in Keys : Get(cache', clock', k, "") = Get(cache, clock, k, "")

\* C27 (Get idempotence): Get changes neither the entries nor the timers,
\* and as long as no writer runs a Get of a key returns the same
\* observation, also across the instant the entry's expiresAt passes.
GetIdempotence == [][GetSideEffectFree /\ (NoWriterStep => SameObservation)]_vars

\* The same without the passing of time: holds.
GetIdempotenceAtOneInstant ==
    [][GetSideEffectFree /\ ((NoWriterStep /\ clock' = clock) => SameObservation)]_vars


----------------------------------------------------------------------------
(* Claims about the ring buffer (GrowSpec).                                 *)

RECURSIVE IsPowerOfTwo(_)
IsPowerOfTwo(n) == n = 1 \/ (n > 1 /\ n % 2 = 0 /\ IsPowerOfTwo(n \div 2))

\* C28 (ring-buffer invariants): the capacity is a power of two and at
\* least 16, 0 <= count <= capacity, head and tail are indices of the
\* buffer, and tail = (head + count) mod capacity, after every PushBack,
\* PushFront, PopFront and PopFrontAsync, growth included.
RingInvariant ==
    LET q == deques[1]
        capacity == Len(q.buf)
    IN  /\ capacity >= InitialCapacity
        /\ IsPowerOfTwo(capacity)
        /\ 0 <= q.count /\ q.count <= capacity
        /\ 0 <= q.head /\ q.head < capacity
        /\ 0 <= q.tail /\ q.tail < capacity
        /\ q.tail = (q.head + q.count) % capacity

\* A PushFront stepped the head back below slot 0 of a buffer that has
\* grown: the elements wrap around the end of the buffer.
RingInvariantWitness ==
    /\ lastOp.op = "PushFront"
    /\ Len(deques[1].buf) > InitialCapacity
    /\ deques[1].head > deques[1].tail
    /\ deques[1].count > deques[1].head

\* The list GetRange(0, -1) returns.
AbsList(q) == GetRange(q, 0, -1).items

\* What growth for a push of m values does to the deque as it is now.
GrowthRelinearizes(m) ==
    LET q == deques[1]
        r == resizeIfNecessaryNoLock(q, q.count + m)
    IN  IF q.count + m <= Len(q.buf) THEN r = q
        ELSE /\ \E j \in 1..MaxGrowVals : Len(r.buf) = Len(q.buf) * 2^j
             /\ q.count + m <= Len(r.buf)
             /\ Len(r.buf) < 2 * (q.count + m)
             /\ r.head = 0
             /\ r.tail = q.count
             /\ r.count = q.count
             /\ AbsList(r) = AbsList(q)

\* Each call changes the list GetRange returns as the same call changes a
\* plain list.
RefinesListStep ==
    LET s == AbsList(deques[1])
        t == AbsList(deques'[1])
        k == Min(lastOp'.n, Len(s))
    IN  /\ IsCall("PushBack") => t = s \o lastOp'.values
        /\ IsCall("PushFront") => t = Reverse(lastOp'.values) \o s
        /\ IsCall("PopFront") =>
              /\ t = SubSeq(s, k + 1, Len(s))
              /\ lastOp'.res.items = SubSeq(s, 1, k)
        /\ IsCall("PopFrontAsync") => t = IF s = << >> THEN s ELSE Tail(s)

\* C29 (growth preserves contents; the deque refines a list): a push that
\* needs room doubles the capacity until count + len(values) fits, leaves
\* head = 0 and tail = count and the same elements in the same order; and
\* over any run of PushBack, PushFront and PopFront, across growth and
\* wrap-around, GetRange(0, -1) is the list the same calls build on a plain
\* sequence, starting from the empty one.
GrowthPreservesContents ==
    /\ AbsList(NewConcurrentDeque) = << >>
    /\ [](\A m \in GrowBatches : GrowthRelinearizes(m))
    /\ [][RefinesListStep]_vars

\* A full buffer whose elements wrapped (8 pushed in front, 8 behind) grew
\* for 8 more: the list is v8..v1, v9..v24, stored from slot 0.
GrowthPreservesContentsWitness ==
    /\ lastOp.op = "PushBack"
    /\ Len(deques[1].buf) = 2 * InitialCapacity
    /\ deques[1].head = 0
    /\ deques[1].count = 24
    /\ AbsList(deques[1])[1] = ValueName(8)
    /\ AbsList(deques[1])[8] = ValueName(1)
    /\ AbsList(deques[1])[24] = ValueName(24)


----------------------------------------------------------------------------
(* Claims about PopFrontAsync (DequeSpec).                                  *)

ImmediatePopStep ==
    LET q == deques[1]
        r == deques'[1]
        ch == lastOp'.ret
    IN  /\ IsCall("PopFrontAsync") =>
              /\ ch = Len(chans) + 1
              /\ Len(chans') = Len(chans) + 1
              /\ \A i \in 1..Len(chans) : chans'[i] = chans[i]
              /\ chans'[ch].got = << >>
              /\ IF q.count > 0
                 THEN /\ Contents(r) = Tail(Contents(q))
                      /\ chans'[ch].buf = << <<Head(Contents(q))>> >>
                      /\ r.waiters = q.waiters
                 ELSE /\ r.waiters = Append(q.waiters, ch)
                      /\ chans'[ch].buf = << >>
                      /\ r.count = 0
        /\ Len(r.waiters) > Len(q.waiters) => (IsCall("PopFrontAsync") /\ q.count = 0)

\* C30 (immediate pop path): PopFrontAsync on a deque with count > 0
\* removes exactly the head, returns a channel that already holds the
\* one-element sequence of that head, and queues no waiter; a waiter is
\* queued only by a PopFrontAsync that finds count = 0.
ImmediatePop == [][ImmediatePopStep]_vars

\* PopFrontAsync found two elements: its channel holds the first, the second
\* is now the head, and nothing is queued.
ImmediatePopWitness ==
    /\ lastOp.op = "PopFrontAsync"
    /\ chans[lastOp.ret].buf = << <<ValueName(1)>> >>
    /\ Contents(deques[1]) = <<ValueName(2)>>
    /\ deques[1].waiters = << >>


----------------------------------------------------------------------------
(* Claims about the list store (CmdSpec).                                   *)

\* The command that has just run is one that reaches lists.GetOrCreate for
\* key k: RPUSH or LPUSH with an element, BLPOP with an integer timeout.
CreatesList(k) ==
    LET p == cmd'.params
    IN  /\ cmd'.count = cmd.count + 1
        /\ Len(p) >= 2
        /\ p[2] = k
        /\ \/ p[1] \in {"RPUSH", "LPUSH"} /\ Len(p) >= 3
           \/ p[1] = "BLPOP" /\ Len(p) = 3 /\ Atoi(p[3]).ok

ListKeyLifetimeStep ==
    /\ \A k \in ListKeys :
          /\ lists[k].exists => lists'[k] = lists[k]
          /\ (~lists[k].exists /\ lists'[k].exists) <=> (~lists[k].exists /\ CreatesList(k))
          /\ lists'[k].exists =>
                (lists'[k].expiresAt = ZeroTime /\ lists'[k].timer = NilTimer
                 /\ ~isExpired(lists'[k], clock'))
    /\ (Ran("LLEN") \/ Ran("LRANGE") \/ Ran("LPOP")) => lists' = lists
    /\ (Ran("LLEN") /\ Len(cmd'.params) = 2) =>
          (cmd'.reply = ErrReply("List does not exist!") <=> ~lists[cmd'.params[2]].exists)
    /\ (Ran("LPOP") /\ Len(cmd'.params) \in {2, 3} /\ lpopCount(cmd'.params).ok
        /\ lpopCount(cmd'.params).n >= 1) =>
          (cmd'.reply = NilBulk <=> ~lists[cmd'.params[2]].exists)

----------------------------------------------------------------------------
(* WriteSpec: the WriteWorkers of two connections whose sockets can start   *)
(* failing.  The readers are reduced to what they hand over on c; Spec is   *)
(* the server on a network whose writes succeed.  bufio.Writer keeps its    *)
(* first write error and returns it from every later WriteString and Flush. *)

MaxWrites == 2

\* What a reader hands to its writer.
WriteReplies == {Reply("+", 0, << >>, "PONG"), IntReply(1), HandleErrorReply("protocol", TRUE)}

WriteInit ==
    /\ MapStateInit
    /\ DequeStateIdle
    /\ AuxStateIdle
    /\ lists = NewConcurrentMap(ListKeys, 0)
    /\ cancelled = FALSE
    /\ listener = "open"
    /\ acceptor = [pc |-> "accept", c |-> 0]
    /\ mainpc = "loop"
    /\ conn = [c \in Conns |-> [state |-> "serving", closed |-> FALSE, cclosed |-> FALSE,
                                sock |-> << >>, broken |-> FALSE]]
    /\ reader = [c \in Conns |-> [ReaderIdle EXCEPT !.pc = "top"]]
    /\ writer = [c \in Conns |-> [pc |-> "run", buf |-> << >>, err |-> FALSE]]
    /\ hist = [c \in Conns |-> [dispatched |-> 0, handed |-> << >>]]

\* writer.WriteString(str): the sticky error if there is one; a string
\* larger than the buffer is written through to the socket, a small one is
\* only buffered.  Yields the writer, the connection and the error flag.
bufioWriteString(w, k, str, big) ==
    IF w.err THEN [w |-> w, k |-> k, err |-> TRUE]
    ELSE IF big
    THEN IF k.broken \/ k.closed
         THEN [w |-> [w EXCEPT !.err = TRUE], k |-> k, err |-> TRUE]
         ELSE [w |-> [w EXCEPT !.buf = << >>],
               k |-> [k EXCEPT !.sock = @ \o WriteString(w.buf, str)], err |-> FALSE]
    ELSE [w |-> [w EXCEPT !.buf = WriteString(@, str)], k |-> k, err |-> FALSE]

\* writer.Flush(), its result dropped by the caller.
bufioFlush(w, k) ==
    IF w.err \/ w.buf = << >> THEN [w |-> w, k |-> k]
    ELSE IF k.broken \/ k.closed THEN [w |-> [w EXCEPT !.err = TRUE], k |-> k]
    ELSE [w |-> [w EXCEPT !.buf = << >>], k |-> [k EXCEPT !.sock = Flush(@, w.buf)]]

\* The `case str, ok := <-in` branch returning on a write error, with the
\* deferred conn.Close() (mutant of writeWorkerReceive).
writeWorkerReceiveReturn(w, k, str, big) ==
    LET ws == bufioWriteString(w, k, str, big)
    IN  IF HasPrefixErrTerm(str) \/ ws.err
        THEN [w |-> [ws.w EXCEPT !.pc = "done"], k |-> [ws.k EXCEPT !.closed = TRUE]]
        ELSE bufioFlush(ws.w, ws.k)

\* The `case str, ok := <-in` branch of WriteWorker for ok = true:
\* WriteString; return on the "-ERRTERM" prefix (the deferred conn.Close()
\* runs); on a write error `break`, which leaves the select and goes round
\* the for loop again; else Flush.
writeWorkerReceive(w, k, str, big) ==
    LET ws == bufioWriteString(w, k, str, big)
    IN  IF HasPrefixErrTerm(str)
        THEN [w |-> [ws.w EXCEPT !.pc = "done"], k |-> [ws.k EXCEPT !.closed = TRUE]]
        ELSE IF ws.err THEN [w |-> ws.w, k |-> ws.k]
        ELSE bufioFlush(ws.w, ws.k)

writeFrame ==
    UNCHANGED <<mapVars, dequeVars, lists, listener, acceptor, mainpc, stream, rw, cmd, lk>>

\* The peer resets the connection or stops reading: writes to the socket
\* fail from now on.
SocketBreaks(c) ==
    /\ ~conn[c].broken
    /\ ~conn[c].closed
    /\ conn' = [conn EXCEPT ![c].broken = TRUE]
    /\ UNCHANGED <<cancelled, reader, writer, hist>>
    /\ writeFrame

\* The reader of c hands a reply to its writer (the rendezvous on c); after
\* a fatal reply the reader returns.
WriteReceive(c, str, big) ==
    /\ writer[c].pc = "run"
    /\ reader[c].pc = "top"
    /\ Len(hist[c].handed) < MaxWrites
    /\ LET a == writeWorkerReceive(writer[c], conn[c], str, big)
       IN  /\ writer' = [writer EXCEPT ![c] = a.w]
           /\ conn' = [conn EXCEPT ![c] = a.k]
    /\ hist' = [hist EXCEPT ![c].handed = Append(@, [req |-> 0, reply |-> str])]
    /\ reader' = [reader EXCEPT ![c].pc = IF HasPrefixErrTerm(str) THEN "done" ELSE "top"]
    /\ UNCHANGED cancelled
    /\ writeFrame

\* The reader of c returns (its client disconnected, or the context is
\* done) and closes c.
WriteReaderReturns(c) ==
    /\ reader[c].pc = "top"
    /\ reader' = [reader EXCEPT ![c].pc = "done"]
    /\ UNCHANGED <<cancelled, conn, writer, hist>>
    /\ writeFrame

\* WriteWorker's receive finds c closed: return, conn.Close().
WriteChanClosed(c) ==
    /\ writer[c].pc = "run"
    /\ reader[c].pc = "done"
    /\ writer' = [writer EXCEPT ![c].pc = "done"]
    /\ conn' = [conn EXCEPT ![c].closed = TRUE]
    /\ UNCHANGED <<cancelled, reader, hist>>
    /\ writeFrame

\* cancel() is called.
WriteCancel ==
    /\ ~cancelled
    /\ cancelled' = TRUE
    /\ UNCHANGED <<conn, reader, writer, hist>>
    /\ writeFrame

\* WriteWorker's select takes ctx.Done(): return, conn.Close().
WriteCancelled(c) ==
    /\ writer[c].pc = "run"
    /\ cancelled
    /\ writer' = [writer EXCEPT ![c].pc = "done"]
    /\ conn' = [conn EXCEPT ![c].closed = TRUE]
    /\ UNCHANGED <<cancelled, reader, hist>>
    /\ writeFrame

WriteNext ==
    \/ \E c \in Conns : SocketBreaks(c)
    \/ \E c \in Conns, str \in WriteReplies, big \in BOOLEAN : WriteReceive(c, str, big)
    \/ \E c \in Conns : WriteReaderReturns(c)
    \/ \E c \in Conns : WriteChanClosed(c)
    \/ WriteCancel
    \/ \E c \in Conns : WriteCancelled(c)

WriteSpec == WriteInit /\ [][WriteNext]_vars

\* What happens on c leaves the other connection and the stores alone.
FailureStaysLocalStep ==
    /\ UNCHANGED <<cache, timers, lists, deques, chans>>
    /\ \A c \in Conns :
          (conn'[c] # conn[c] \/ writer'[c] # writer[c]) =>
              \A d \in Conns \ {c} :
                  conn'[d] = conn[d] /\ writer'[d] = writer[d] /\ reader'[d] = reader[d]

\* Containment alone: holds.
FailureStaysLocal == [][FailureStaysLocalStep]_vars

\* C32 (transport failure containment): a writer that has met a failed
\* socket write is stopped with its connection closed and takes no further
\* reply, and nothing that happens on one connection changes the other
\* connection's reader, writer or socket, or the stores.
TransportFailureContained ==
    /\ [](\A c \in Conns : writer[c].err => (writer[c].pc = "done" /\ conn[c].closed))
    /\ [][\A c \in Conns : writer[c].err => hist'[c].handed = hist[c].handed]_vars
    /\ [][FailureStaysLocalStep]_vars


----------------------------------------------------------------------------
(* Claims about fatal conditions (FairSpec).                                *)

\* The accept goroutine returned on an error of listener.Accept() while the
\* listener is open and the context is not done.
AcceptLoopFailed == acceptor.pc = "done" /\ listener = "open" /\ ~cancelled

\* C33 (fatal conditions trigger cancellation): the operator's q on stdin,
\* a failure of net.Listen, and a failure of the accept loop are each
\* followed by the cancellation of the context, so that the server goes on
\* to its teardown.
FatalTriggersCancellation ==
    /\ [][StdinQuit => cancelled']_vars
    /\ (listener = "failed") ~> cancelled
    /\ AcceptLoopFailed ~> cancelled

\* Stdin and the bind failure alone: the context is cancelled by the step
\* that follows ListenStdin's, respectively ClientConnectionWorker's,
\* return (holds).
QuitAndBindFailureCancel ==
    /\ [][StdinQuit => cancelled']_vars
    /\ [](listener = "failed" => cancelled)


----------------------------------------------------------------------------
(* ReplySpec: the reply strings as bytes.  Commands whose names and         *)
(* arguments are chosen to look like the terminate marker are run to their  *)
(* replies, next to iterations of ReadWorker that meet a malformed frame.   *)

\* The bytes of the tokens clients send and of the short server literals.
Bytes ==
    ("" :> << >>) @@
    ("-ERRTERM" :> <<"-", "E", "R", "R", "T", "E", "R", "M">>) @@
    ("-ERRTERM x" :> <<"-", "E", "R", "R", "T", "E", "R", "M", " ", "x">>) @@
    ("NOPE" :> <<"N", "O", "P", "E">>) @@
    ("PONG" :> <<"P", "O", "N", "G">>) @@
    ("OK" :> <<"O", "K">>)

CRLF == <<"\r", "\n">>

DigitChars == <<"0", "1", "2", "3", "4", "5", "6", "7", "8", "9">>

\* %d for the numbers replies carry (below 100 in absolute value).
itoa(n) ==
    IF n < 0 THEN <<"-">> \o (IF 0 - n < 10 THEN <<DigitChars[1 - n]>>
                                ELSE <<DigitChars[((0 - n) \div 10) + 1], DigitChars[((0 - n) % 10) + 1]>>)
    ELSE IF n < 10 THEN <<DigitChars[n + 1]>>
    ELSE <<DigitChars[(n \div 10) + 1], DigitChars[(n % 10) + 1]>>

\* "$%d\r\n%s\r\n" with the byte length of the string.
bulkBytes(s) == <<"$">> \o itoa(Len(Bytes[s])) \o CRLF \o Bytes[s] \o CRLF

RECURSIVE bulksBytes(_)
bulksBytes(items) ==
    IF items = << >> THEN << >> ELSE bulkBytes(Head(items)) \o bulksBytes(Tail(items))

\* The string a reply stands for, byte by byte up to the end of its
\* leading literal and of the client's text in it; the rest of a long
\* server text is kept as one element.
Wire(reply) ==
    IF reply.prefix = "+" THEN <<"+">> \o Bytes[reply.text] \o CRLF
    ELSE IF reply.prefix = "$"
    THEN IF reply.n = -1 THEN <<"$", "-", "1">> \o CRLF ELSE bulkBytes(reply.text)
    ELSE IF reply.prefix = ":" THEN <<":">> \o itoa(reply.n) \o CRLF
    ELSE IF reply.prefix = "*"
    THEN IF reply.n = -1 THEN <<"*", "-", "1">> \o CRLF
         ELSE <<"*">> \o itoa(reply.n) \o CRLF \o bulksBytes(reply.items)
    ELSE IF reply.prefix = "-ERR" THEN <<"-", "E", "R", "R", " ", reply.text>>
    ELSE IF reply.prefix = "-ERRTERM"
    THEN <<"-", "E", "R", "R">> \o <<"T", "E", "R", "M">> \o <<" ", reply.text>> \o CRLF
    ELSE IF reply.prefix = "Unrecognized"
    THEN <<"U", "n", "r", "e", "c", "o", "g", "n", "i", "z", "e", "d", " ",
           "c", "o", "m", "m", "a", "n", "d", " ", "'">> \o Bytes[reply.text] \o <<"'", "!">> \o CRLF
    ELSE IF reply.prefix = "Command"
    THEN <<"C", "o", "m", "m", "a", "n", "d", " ", "'">> \o Bytes[reply.text]
         \o <<"'", " is not supported">>
    ELSE IF reply.prefix = "usage" THEN <<"\n", "u", "s", "a", "g", "e", ":", reply.text>>
    ELSE Bytes[reply.text]

\* strings.HasPrefix on byte sequences.
HasPrefix(s, prefix) == Len(s) >= Len(prefix) /\ SubSeq(s, 1, Len(prefix)) = prefix

ReplyFrames ==
    { <<"PING">>, <<"-ERRTERM">>, <<"-ERRTERM x">>, <<"NOPE", "-ERRTERM">>,
      <<"ECHO">>, <<"ECHO", "-ERRTERM">>, <<"ECHO", "-ERRTERM x">>,
      <<"HELP">>, <<"HELP", "-ERRTERM">>, <<"HELP", "-ERRTERM x">>, <<"HELP", "ECHO">>,
      <<"RPUSH", "L", "-ERRTERM", "-ERRTERM x">>, <<"LPUSH", "L", "-ERRTERM x">>,
      <<"LPOP", "L">>, <<"LPOP", "L", "-ERRTERM">>, <<"LRANGE", "L", "0", "-1">>,
      <<"LRANGE", "L", "-ERRTERM", "1">>, <<"LLEN", "L">>, <<"BLPOP", "L", "0">>,
      <<"BLPOP", "L", "-ERRTERM">>,
      <<"SET", "k", "-ERRTERM">>, <<"SET", "k", "-ERRTERM x", "PX", "-ERRTERM">>,
      <<"SET", "k">>, <<"GET", "k">>, <<"GET">> }

ReplyNext ==
    \/ \E params \in ReplyFrames : RunCommand(params)
    \/ \E scan \in MalformedStreams : ReadMalformed(scan)

ReplySpec == Init /\ [][ReplyNext]_vars

\* C34 (terminate-marker provenance): a reply whose bytes begin with
\* -ERRTERM comes from HandleError(str, true) in an iteration of ReadWorker
\* whose ParseArray failed, never from a command handler or from the
\* unknown-command message, whatever name and arguments the client chose;
\* and the writer's test of the prefix is true of exactly those replies.
ErrTermProvenance ==
    cmd.count > 0 =>
        /\ HasPrefix(Wire(cmd.reply), Bytes["-ERRTERM"]) <=> HasPrefixErrTerm(cmd.reply)
        /\ HasPrefix(Wire(cmd.reply), Bytes["-ERRTERM"]) <=> cmd.params = << >>

\* ECHO of "-ERRTERM x" was answered with the bulk string $10, which does
\* not begin with the marker.
ErrTermProvenanceWitness ==
    /\ cmd.params = <<"ECHO", "-ERRTERM x">>
    /\ SubSeq(Wire(cmd.reply), 1, 5) = <<"$", "1", "0", "\r", "\n">>
    /\ SubSeq(Wire(cmd.reply), 6, 13) = Bytes["-ERRTERM"]
    /\ ~HasPrefix(Wire(cmd.reply), Bytes["-ERRTERM"])

----------------------------------------------------------------------------
(* Claims about locks and suspended callers (Spec, DequeSpec).              *)

\* The handler of d's command is past ExecuteCommand's lookup and has not
\* finished its calls on the list store and the deque.
InListCall(d) == reader[d].pc \in {"goc", "op"}

\* The next step of d's handler can be taken: the lock of the deque it is
\* about to call is free (the one condition ReaderDequeOp waits for; the
\* slow path of GetOrCreate waits for nothing a handler holds on to).
CanProceed(d) ==
    reader[d].pc = "op" =>
        /\ reader[d].handle \in 1..Len(deques)
        /\ deques[reader[d].handle].mu = "free"

\* A step of d's handler inside the list store or the deque ends in the
\* deque call, in the reply, or in the suspension of a BLPOP; never inside
\* a lock.
ListCallStep(d) ==
    (InListCall(d) /\ reader'[d] # reader[d]) =>
        /\ reader[d].pc = "goc" => reader'[d].pc = "op"
        /\ reader[d].pc = "op" => reader'[d].pc \in {"send", "wait"}

PushNeverBlocks ==
    LET q == deques[1]
    IN  /\ q.mu = "free"
        /\ \A ch \in 1..Len(chans) : Len(chans[ch].buf) + Len(chans[ch].got) <= 1
        /\ \A i \in 1..Len(q.waiters) :
              /\ chans[q.waiters[i]].buf = << >>
              /\ chans[q.waiters[i]].got = << >>
              /\ \A j \in 1..Len(q.waiters) : q.waiters[j] = q.waiters[i] => j = i

\* A second push returned while the value the first push handed to a
\* waiter is still unread in the waiter's channel.
PushNeverBlocksWitness ==
    /\ lastOp.op \in {"PushBack", "PushFront"}
    /\ lastOp.values = <<ValueName(2)>>
    /\ Len(chans) >= 1
    /\ chans[1].buf = << <<ValueName(1)>> >>
    /\ chans[1].got = << >>
    /\ deques[1].mu = "free"


----------------------------------------------------------------------------
(* Claims about what reaches the dispatcher (ParseSpec).                   *)

\* The line ahead at a command boundary is '*0' or the empty line.
EmptyFrameAhead ==
    /\ rw.pc = "loop"
    /\ stream # << >>
    /\ Head(stream) \in {<< >>, <<"*", "0">>}

EmptyFrameStep ==
    (EmptyFrameAhead /\ rw' # rw) => rw' = [rw EXCEPT !.pc = "done"]

\* C37: ExecuteCommand is never handed an empty argument sequence: every
\* command the reader dispatched has at least one element (so Params[0]
\* exists), and a '*0' frame or an empty line at a command boundary makes
\* the reader return as for a disconnect, with no reply sent and nothing
\* dispatched.
DispatchNeverEmpty ==
    /\ [](\A i \in 1..Len(rw.dispatched) : Len(rw.dispatched[i]) > 0)
    /\ [][EmptyFrameStep]_vars

\* The reader dispatched a command, then returned without a reply while
\* lines were still ahead: it left on '*0' or an empty line.
DispatchNeverEmptyWitness ==
    /\ rw.pc = "done"
    /\ rw.sent = << >>
    /\ Len(rw.dispatched) = 1
    /\ stream # << >>


----------------------------------------------------------------------------
(* WireSpec: a client writes array frames on a connection, the server's     *)
(* scanner cuts the bytes into lines with ScanCRLF, and ReadWorker's loop   *)
(* parses the lines. A string is the sequence of its bytes; "C3" and "A9"   *)
(* are the two bytes of one non-ASCII character.                            *)

MaxElems == 2
MaxWireFrames == 1
LongCount == 10

\* The strings a frame is built from: empty, a lone CR, a two-byte
\* character, and a ten-byte string that starts with LF and looks like
\* protocol.
WireStrings ==
    { << >>, <<"\r">>, <<"C3", "A9">>,
      <<"\n", "*", "2", "$", "1", "\r", "a", "\n", "\r", "a">> }

\* The token sequences written: up to MaxElems strings, and one of
\* LongCount elements.
WireFrames ==
    (SeqUpTo(WireStrings, MaxElems) \ {<< >>}) \cup {[i \in 1..LongCount |-> <<"a">>]}

\* The bytes that continue a UTF-8 character.
ContinuationBytes == {"A9"}

\* utf8.RuneCountInString.
RuneCount(s) == Cardinality({i \in 1..Len(s) : s[i] \notin ContinuationBytes})

\* Fprintf "$%d\r\n%s\r\n" with the rune count in place of len(token).
bulkStringRunes(token) == <<"$">> \o itoa(RuneCount(token)) \o CRLF \o token \o CRLF

\* Fprintf(&buf, "$%d\r\n%s\r\n", len(token), token).
bulkString(token) == <<"$">> \o itoa(Len(token)) \o CRLF \o token \o CRLF

RECURSIVE bulkStrings(_)
bulkStrings(tokens) ==
    IF tokens = << >> THEN << >> ELSE bulkString(Head(tokens)) \o bulkStrings(Tail(tokens))

\* respifyArray(tokens): "*%d\r\n" with len(tokens), then each token.
respifyArray(tokens) == <<"*">> \o itoa(Len(tokens)) \o CRLF \o bulkStrings(tokens)

\* SerializeRespArray as bytes: "*-1\r\n" for nil, else as respifyArray.
SerializeRespArrayBytes(arr) ==
    IF arr.nil THEN <<"*", "-", "1">> \o CRLF
    ELSE <<"*">> \o itoa(Len(arr.items)) \o CRLF \o bulkStrings(arr.items)

\* The buffer the client's WriteWorker hands to conn.Write for its tokens.
clientBuffer(tokens) == <<"*">> \o itoa(Len(tokens)) \o CRLF \o bulkStrings(tokens)

\* bytes.Index(data, "\r\n"), counted from 1; 0 when absent.
IndexCRLF(data) ==
    LET at == {i \in 1..(Len(data) - 1) : data[i] = "\r" /\ data[i + 1] = "\n"}
    IN  IF at = {} THEN 0 ELSE CHOOSE i \in at : \A j \in at : i <= j

\* ScanCRLF: the bytes to advance over and the token, if there is one.
ScanCRLF(data, atEOF) ==
    LET i == IndexCRLF(data)
    IN  IF atEOF /\ data = << >> THEN [advance |-> 0, token |-> << >>, has |-> FALSE]
        ELSE IF i > 0
        THEN [advance |-> i + 1, token |-> SubSeq(data, 1, i - 1), has |-> TRUE]
        ELSE IF atEOF THEN [advance |-> Len(data), token |-> data, has |-> TRUE]
        ELSE [advance |-> 0, token |-> << >>, has |-> FALSE]

\* The lines ScanCRLF cuts from data when nothing follows.
RECURSIVE SplitCRLF(_)
SplitCRLF(data) ==
    LET r == ScanCRLF(data, TRUE)
    IN  IF ~r.has THEN << >>
        ELSE <<r.token>> \o SplitCRLF(SubSeq(data, r.advance + 1, Len(data)))

wireFrame == <<mapVars, dequeVars, lists, cmd, lk,
               cancelled, listener, acceptor, mainpc, conn, reader, writer, hist>>

\* The ReadWorker is in its loop on an open connection; nothing written.
WireInit ==
    /\ MapStateInit
    /\ DequeStateIdle
    /\ ServerStateInit
    /\ cmd = NoCmd
    /\ lk = NoLock
    /\ stream = << >>
    /\ rw = [pc |-> "loop", dispatched |-> << >>, sent |-> << >>,
             wrote |-> << >>, wire |-> << >>]

\* The client's WriteWorker writes the frame of its tokens in one Write.
ClientWrite(tokens) ==
    /\ Len(rw.wrote) < MaxWireFrames
    /\ rw' = [rw EXCEPT !.wrote = Append(@, tokens), !.wire = @ \o clientBuffer(tokens)]
    /\ UNCHANGED stream
    /\ UNCHANGED wireFrame

\* The scanner goroutine: one Scan with ScanCRLF on the bytes received (the
\* connection is open), the line sent on the channel.
ScannerScan ==
    /\ LET r == ScanCRLF(rw.wire, FALSE)
       IN  /\ r.has
           /\ stream' = Append(stream, r.token)
           /\ rw' = [rw EXCEPT !.wire = SubSeq(@, r.advance + 1, Len(@))]
    /\ UNCHANGED wireFrame

\* ReadWorker's loop once the lines of what was written are on the
\* channel (a receive on the open, empty channel waits).
WireRead ==
    /\ rw.wire = << >>
    /\ stream # << >>
    /\ ReadWorkerLoop

WireNext ==
    \/ \E tokens \in WireFrames : ClientWrite(tokens)
    \/ ScannerScan
    \/ WireRead

WireSpec == WireInit /\ [][WireNext]_vars

\* ParseArray returns xs from the lines of the serialization of xs, with
\* no error and no line left.
RoundTrips(xs) ==
    LET p == ParseArray(SplitCRLF(respifyArray(xs)))
    IN  /\ p.fatal = ""
        /\ ~p.ret.nil
        /\ p.ret.items = xs
        /\ p.rest = << >>

\* C38 (wire round trip): the three serializers write the same bytes for a
\* non-empty sequence xs of CRLF-free strings, and the lines cut from them on
\* CRLF parse back to exactly xs with no protocol error, lengths being byte
\* lengths on both sides: what the reader has dispatched is what the client
\* wrote, in order, and nothing was answered with a protocol error.
WireRoundTrip ==
    /\ \A i \in 1..Len(rw.wrote) :
          /\ clientBuffer(rw.wrote[i]) = respifyArray(rw.wrote[i])
          /\ SerializeRespArrayBytes(Slice(rw.wrote[i])) = respifyArray(rw.wrote[i])
          /\ RoundTrips(rw.wrote[i])
    /\ rw.sent = << >>
    /\ Len(rw.dispatched) <= Len(rw.wrote)
    /\ \A i \in 1..Len(rw.dispatched) : rw.dispatched[i] = rw.wrote[i]

\* A frame holding the empty string and the two-byte character has been
\* written, scanned and dispatched.
WireRoundTripWitness ==
    /\ rw.wrote = << << << >>, <<"C3", "A9">> >> >>
    /\ rw.dispatched = rw.wrote
    /\ rw.wire = << >>
    /\ stream = << >>

====
